---- MODULE Spec2Model ----
(***************************************************************************)
(* Model of the ahoy-lsp language server: the scope-based symbol table     *)
(* (SymbolTable, BuildSymbolTable), the document store and its             *)
(* open/change/close handlers with their parse tasks (server.go), the      *)
(* diagnostics publisher (publishDiagnostics) and the hover reader         *)
(* (hover.go).                                                             *)
(***************************************************************************)
EXTENDS Integers, Sequences, FiniteSets, TLC

(***************************************************************************)
(* Strings of the program (source text, names, type names) are sequences   *)
(* of one-character strings, so that len, indexing, slicing and            *)
(* concatenation are what they are in the code.  Node kinds, symbol kinds  *)
(* and diagnostic codes are enumeration tags and stay TLA+ strings.        *)
(***************************************************************************)
S_int == <<"i", "n", "t">>
S_float == <<"f", "l", "o", "a", "t">>
S_string == <<"s", "t", "r", "i", "n", "g">>
S_bool == <<"b", "o", "o", "l">>
S_array == <<"a", "r", "r", "a", "y">>
S_dict == <<"d", "i", "c", "t">>
S_enum == <<"e", "n", "u", "m">>
S_struct == <<"s", "t", "r", "u", "c", "t">>
S_any == <<"a", "n", "y">>

\* strings.Contains(s, c) for a one-character c
Contains(s, c) == \E i \in 1..Len(s) : s[i] = c

(***************************************************************************)
(* AST nodes (ahoy.ASTNode, consumed as an opaque tree).  A node is a      *)
(* record; a nil *ASTNode is NilNode.  Reading a field of NilNode is a nil *)
(* dereference in the program and is modelled as a panic wherever the code *)
(* reads without a nil test.                                               *)
(***************************************************************************)
NilNode ==
    [Type |-> "NIL", Value |-> <<>>, DataType |-> <<>>, Line |-> 0, Children |-> <<>>,
     DefaultValue |-> <<>>]

IsNil(node) == node.Type = "NIL"

\* DefaultValue is <<>> for nil and <<node>> otherwise
Node(type, value, dataType, line, children) ==
    [Type |-> type, Value |-> value, DataType |-> dataType, Line |-> line, Children |-> children,
     DefaultValue |-> <<>>]

\* walkNode's limits on recursion depth and on the child count of one node
MaxWalkDepth == 1000
MaxWalkChildren == 1000

\* node kinds for which walkNode opens a child scope around the children
BlockKinds == {"IF_STATEMENT", "WHILE_LOOP", "FOR_LOOP", "FOR_RANGE_LOOP",
               "FOR_COUNT_LOOP", "FOR_IN_ARRAY_LOOP", "FOR_IN_DICT_LOOP"}

(***************************************************************************)
(* Symbols, scopes and the symbol table.  Scopes live in an arena          *)
(* (st.scopes); a *Scope is an index into it and 0 is the nil pointer.     *)
(***************************************************************************)
EmptyMap == [x \in {} |-> x]

Symbol(name, kind, type, line) ==
    [Name |-> name, Kind |-> kind, Type |-> type, Line |-> line, Column |-> 0]

NewScope(parent) ==
    [Parent |-> parent, Symbols |-> EmptyMap, Children |-> <<>>, StartLine |-> 0, EndLine |-> 0]

NewSymbolTable ==
    [GlobalScope |-> 1, CurrentScope |-> 1, scopes |-> <<NewScope(0)>>]

\* Scope.AddSymbol: s.Symbols[symbol.Name] = symbol (an existing entry is overwritten)
ScopeAddSymbol(scope, symbol) ==
    [scope EXCEPT !.Symbols = (symbol.Name :> symbol) @@ @]

ScopeLookupNoParent(st, s, name) ==
    IF name \in DOMAIN st.scopes[s].Symbols THEN <<st.scopes[s].Symbols[name]>> ELSE <<>>

\* Scope.Lookup: this scope first, then the parents; <<>> is nil, <<sym>> a hit.
\* A nil receiver (s = 0) faults at s.Symbols: see LookupPanics.
RECURSIVE ScopeLookup(_, _, _)
ScopeLookup(st, s, name) ==
    IF name \in DOMAIN st.scopes[s].Symbols
    THEN <<st.scopes[s].Symbols[name]>>
    ELSE IF st.scopes[s].Parent # 0
         THEN ScopeLookup(st, st.scopes[s].Parent, name)
         ELSE <<>>

\* Scope.LookupLocal
LookupLocal(st, s, name) ==
    IF name \in DOMAIN st.scopes[s].Symbols THEN <<st.scopes[s].Symbols[name]>> ELSE <<>>

\* SymbolTable.Lookup calls st.CurrentScope.Lookup(name); with CurrentScope nil
\* the method reads s.Symbols through a nil pointer and panics.
LookupPanics(st) == st.CurrentScope = 0

Lookup(st, name) == ScopeLookup(st, st.CurrentScope, name)

\* SymbolTable.clearScope: empties the scope, then its children, then cuts the links
RECURSIVE clearScope(_, _)
RECURSIVE clearScopes(_, _, _)
clearScopes(scopes, kids, i) ==
    IF i > Len(kids) THEN scopes
    ELSE clearScopes(clearScope(scopes, kids[i]), kids, i + 1)

clearScope(scopes, s) ==
    IF s = 0 THEN scopes
    ELSE LET kids == scopes[s].Children
             emptied == [scopes EXCEPT ![s].Symbols = EmptyMap]
             below == clearScopes(emptied, kids, 1)
         IN [below EXCEPT ![s].Children = <<>>, ![s].Parent = 0]

\* SymbolTable.Clear
Clear(st) ==
    [st EXCEPT !.scopes = IF st.GlobalScope # 0 THEN clearScope(st.scopes, st.GlobalScope) ELSE @,
               !.GlobalScope = 0,
               !.CurrentScope = 0]

IsCleared(st) == st.GlobalScope = 0 /\ st.CurrentScope = 0

\* SymbolTable.EnterScope
EnterScope(st) ==
    LET id == Len(st.scopes) + 1
    IN [st EXCEPT !.scopes = Append([@ EXCEPT ![st.CurrentScope].Children = Append(@, id)],
                                    NewScope(st.CurrentScope)),
                  !.CurrentScope = id]

ExitScopeStay(st) == st

\* SymbolTable.ExitScope
ExitScope(st) ==
    IF st.scopes[st.CurrentScope].Parent # 0
    THEN [st EXCEPT !.CurrentScope = st.scopes[st.CurrentScope].Parent]
    ELSE st

\* SymbolTable.AddSymbol
AddSymbol(st, symbol) ==
    [st EXCEPT !.scopes[st.CurrentScope] = ScopeAddSymbol(@, symbol)]

SetStartLine(st, line) ==
    [st EXCEPT !.scopes[st.CurrentScope].StartLine = line]

\* SymbolTable.inferType
inferType(st, node) ==
    IF IsNil(node) THEN <<>>
    ELSE CASE node.Type = "NUMBER" -> IF Contains(node.Value, ".") THEN S_float ELSE S_int
           [] node.Type = "STRING" -> S_string
           [] node.Type = "BOOLEAN" -> S_bool
           [] node.Type = "ARRAY_LITERAL" -> S_array
           [] node.Type = "DICT_LITERAL" -> S_dict
           [] node.Type \in {"IDENTIFIER", "CALL"} ->
                 LET hit == Lookup(st, node.Value)
                 IN IF hit # <<>> THEN hit[1].Type ELSE <<>>
           [] OTHER -> <<>>

(***************************************************************************)
(* walkNode.  The walk state w is [st, panic]: the table under             *)
(* construction and whether a nil dereference has aborted the walk.        *)
(***************************************************************************)
RECURSIVE walkNode(_, _, _)
RECURSIVE walkChildren(_, _, _, _)
RECURSIVE addParams(_, _, _)
RECURSIVE addEnumValues(_, _, _, _)
RECURSIVE addStructFields(_, _, _)

walkChildrenUntilGuard(w, kids, i, depth) ==
    IF w.panic \/ i > Len(kids) THEN w
    ELSE IF depth + 1 > MaxWalkDepth \/ Len(kids[i].Children) > MaxWalkChildren THEN w
    ELSE walkChildren(walkNode(w, kids[i], depth + 1), kids, i + 1, depth)

\* for _, child := range node.Children { st.walkNode(child, depth+1) }
walkChildren(w, kids, i, depth) ==
    IF w.panic \/ i > Len(kids) THEN w
    ELSE walkChildren(walkNode(w, kids[i], depth + 1), kids, i + 1, depth)

\* for i := 0; i < len(params.Children); i += 2: name at i, type at i+1 (i is 1-based here)
addParams(w, kids, i) ==
    IF w.panic \/ i > Len(kids) THEN w
    ELSE IF IsNil(kids[i]) \/ (i + 1 <= Len(kids) /\ IsNil(kids[i + 1]))
         THEN [w EXCEPT !.panic = TRUE]
         ELSE LET paramType == IF i + 1 <= Len(kids) THEN kids[i + 1].Value ELSE <<>>
                  sym == Symbol(kids[i].Value, "Parameter", paramType, kids[i].Line)
              IN addParams([w EXCEPT !.st = AddSymbol(@, sym)], kids, i + 2)

\* for _, child := range node.Children { if child.Type == NODE_IDENTIFIER {...} }
addEnumValues(w, kids, i, enumName) ==
    IF w.panic \/ i > Len(kids) THEN w
    ELSE IF IsNil(kids[i]) THEN [w EXCEPT !.panic = TRUE]
         ELSE IF kids[i].Type = "IDENTIFIER"
              THEN addEnumValues([w EXCEPT !.st = AddSymbol(@,
                                      Symbol(kids[i].Value, "EnumValue", enumName, kids[i].Line))],
                                 kids, i + 1, enumName)
              ELSE addEnumValues(w, kids, i + 1, enumName)

\* for i := 0; i < len(node.Children); i += 2: field name at i, field type at i+1
addStructFields(w, kids, i) ==
    IF w.panic \/ i > Len(kids) THEN w
    ELSE IF IsNil(kids[i]) \/ (i + 1 <= Len(kids) /\ IsNil(kids[i + 1]))
         THEN [w EXCEPT !.panic = TRUE]
         ELSE LET fieldType == IF i + 1 <= Len(kids) THEN kids[i + 1].Value ELSE <<>>
                  sym == Symbol(kids[i].Value, "StructField", fieldType, kids[i].Line)
              IN addStructFields([w EXCEPT !.st = AddSymbol(@, sym)], kids, i + 2)

walkFunction(w, node, depth) ==
    LET w1 == [w EXCEPT !.st = SetStartLine(EnterScope(
                        AddSymbol(@, Symbol(node.Value, "Function", node.DataType, node.Line))),
                        node.Line)]
        w2 == IF Len(node.Children) > 0 /\ ~IsNil(node.Children[1])
              THEN addParams(w1, node.Children[1].Children, 1)
              ELSE w1
        w3 == IF ~w2.panic /\ Len(node.Children) > 1
              THEN walkNode(w2, node.Children[2], depth + 1)
              ELSE w2
    IN IF w3.panic THEN w3 ELSE [w3 EXCEPT !.st = ExitScope(@)]

walkVariable(w, node, depth) ==
    LET varType == IF node.DataType = <<>> /\ Len(node.Children) > 0
                   THEN inferType(w.st, node.Children[1])
                   ELSE node.DataType
        w1 == [w EXCEPT !.st = AddSymbol(@, Symbol(node.Value, "Variable", varType, node.Line))]
    IN IF Len(node.Children) > 0 THEN walkNode(w1, node.Children[1], depth + 1) ELSE w1

walkEnum(w, node) ==
    addEnumValues([w EXCEPT !.st = AddSymbol(@, Symbol(node.Value, "Enum", S_enum, node.Line))],
                  node.Children, 1, node.Value)

walkStruct(w, node) ==
    addStructFields([w EXCEPT !.st = AddSymbol(@, Symbol(node.Value, "Struct", S_struct, node.Line))],
                    node.Children, 1)

walkConstant(w, node) ==
    LET constType == IF node.DataType = <<>> /\ Len(node.Children) > 0
                     THEN inferType(w.st, node.Children[1])
                     ELSE node.DataType
    IN [w EXCEPT !.st = AddSymbol(@, Symbol(node.Value, "Constant", constType, node.Line))]

walkBlockLike(w, node, depth) ==
    LET w1 == [w EXCEPT !.st = SetStartLine(EnterScope(@), node.Line)]
        hasVar == node.Type = "FOR_IN_ARRAY_LOOP" /\ Len(node.Children) > 0
        w2 == IF ~hasVar THEN w1
              ELSE IF IsNil(node.Children[1]) THEN [w1 EXCEPT !.panic = TRUE]
              ELSE IF node.Children[1].Type = "IDENTIFIER"
                   THEN [w1 EXCEPT !.st = AddSymbol(@,
                             Symbol(node.Children[1].Value, "Variable", S_any, node.Children[1].Line))]
                   ELSE w1
        w3 == walkChildren(w2, node.Children, 1, depth)
    IN IF w3.panic THEN w3 ELSE [w3 EXCEPT !.st = ExitScope(@)]

walkNode(w, node, depth) ==
    IF w.panic \/ IsNil(node) THEN w
    ELSE IF depth > MaxWalkDepth THEN w
    ELSE IF Len(node.Children) > MaxWalkChildren THEN w
    ELSE CASE node.Type = "FUNCTION" -> walkFunction(w, node, depth)
           [] node.Type \in {"VARIABLE_DECLARATION", "ASSIGNMENT"} -> walkVariable(w, node, depth)
           [] node.Type = "ENUM_DECLARATION" -> walkEnum(w, node)
           [] node.Type = "STRUCT_DECLARATION" -> walkStruct(w, node)
           [] node.Type = "CONSTANT_DECLARATION" -> walkConstant(w, node)
           [] node.Type \in BlockKinds -> walkBlockLike(w, node, depth)
           [] OTHER -> walkChildren(w, node.Children, 1, depth)

\* BuildSymbolTable: [st, panic]; with panic the call never returns a table
BuildSymbolTable(ast) ==
    IF IsNil(ast) THEN [st |-> NewSymbolTable, panic |-> FALSE]
    ELSE walkNode([st |-> NewSymbolTable, panic |-> FALSE], ast, 0)

(***************************************************************************)
(* Source text.  A text is [chars, pad]: its leading characters followed   *)
(* by pad further bytes "x" on its last line, so that the size limits of   *)
(* the handlers can be exceeded without writing the bytes out.             *)
(***************************************************************************)
Text(chars, pad) == [chars |-> chars, pad |-> pad]

EmptyText == Text(<<>>, 0)

ByteLenUnpadded(text) == Len(text.chars)

\* len(text)
ByteLen(text) == Len(text.chars) + text.pad

\* handleDidOpen / handleDidChange refuse texts above this size
MaxFileSize == 5000000
\* handleHover answers nothing for documents above this size
MaxHoverSize == 1000000
\* getWordAtPosition answers nothing on lines above this length
MaxLineLen == 10000

\* strings.Split(text, "\n"): the lines, the last one carrying the padding
RECURSIVE SplitFrom(_, _, _)
SplitFrom(text, i, cur) ==
    IF i > Len(text.chars) THEN <<Text(cur, text.pad)>>
    ELSE IF text.chars[i] = "\n"
         THEN <<Text(cur, 0)>> \o SplitFrom(text, i + 1, <<>>)
         ELSE SplitFrom(text, i + 1, Append(cur, text.chars[i]))

Split(text) == SplitFrom(text, 1, <<>>)

\* currentLine[i] for a 0-based byte index i < len(currentLine)
ByteAt(line, i) == IF i < Len(line.chars) THEN line.chars[i + 1] ELSE "x"

\* isWordChar
WordChars ==
    {
     "a", "b", "c", "d", "e", "f", "g", "h", "i", "j", "k", "l", "m", "n", "o", "p",
     "q", "r", "s", "t", "u", "v", "w", "x", "y", "z", "A", "B", "C", "D", "E", "F",
     "G", "H", "I", "J", "K", "L", "M", "N", "O", "P", "Q", "R", "S", "T", "U", "V",
     "W", "X", "Y", "Z", "0", "1", "2", "3", "4", "5", "6", "7", "8", "9", "_"}

isWordChar(ch) == ch \in WordChars

RECURSIVE wordStart(_, _)
wordStart(line, start) ==
    IF start > 0 /\ isWordChar(ByteAt(line, start - 1)) THEN wordStart(line, start - 1) ELSE start

RECURSIVE wordEnd(_, _)
wordEnd(line, end) ==
    IF end < ByteLen(line) /\ isWordChar(ByteAt(line, end)) THEN wordEnd(line, end + 1) ELSE end

\* currentLine[start:end]
Slice(line, start, end) == [i \in 1..(end - start) |-> ByteAt(line, start + i - 1)]

\* getWordAtPosition(doc, line, character) on the cached doc.Lines (nil is <<>>)
getWordAtPosition(lines, line, character) ==
    IF lines = <<>> THEN <<>>
    ELSE IF line < 0 \/ line >= Len(lines) THEN <<>>
    ELSE LET currentLine == lines[line + 1]
         IN IF character < 0 \/ character >= ByteLen(currentLine) THEN <<>>
            ELSE IF ByteLen(currentLine) > MaxLineLen THEN <<>>
            ELSE LET start == wordStart(currentLine, character)
                     end == wordEnd(currentLine, character)
                 IN IF start >= end THEN <<>> ELSE Slice(currentLine, start, end)

(***************************************************************************)
(* The parser (package ahoy) is an external collaborator.  It is modelled  *)
(* on the sample texts below: what Tokenize and ParseLint return for them, *)
(* and for which of them they panic.                                       *)
(***************************************************************************)
TxtVar == Text(<<"a">>, 0)                  \* a variable declaration
TxtConst == Text(<<"b", "\n", "c">>, 0)     \* a constant declaration and a syntax error on line 2
TxtEnum == Text(<<"e">>, 0)                 \* an enum whose AST has a nil child
TxtFunc == Text(<<"f">>, 0)                 \* a function whose AST has a nil parameter block
TxtParsePanic == Text(<<"p">>, 0)           \* ParseLint panics
TxtTokenPanic == Text(<<"t">>, 0)           \* Tokenize panics
TxtHuge == Text(<<"x">>, MaxFileSize)       \* above the size limit

Token(value, line) == [Type |-> "TOKEN", Value |-> value, Line |-> line]

TokenizePanics(text) == Len(text.chars) > 0 /\ text.chars[1] = "t"

RECURSIVE TokenizeFrom(_, _, _)
TokenizeFrom(text, i, line) ==
    IF i > Len(text.chars) THEN <<>>
    ELSE IF text.chars[i] = "\n" THEN TokenizeFrom(text, i + 1, line + 1)
         ELSE <<Token(<<text.chars[i]>>, line)>> \o TokenizeFrom(text, i + 1, line)

\* ahoy.Tokenize
Tokenize(text) == TokenizeFrom(text, 1, 1)

ParseError(line, column, message) == [Line |-> line, Column |-> column, Message |-> message]

ParseLintPanics(tokens) == Len(tokens) > 0 /\ tokens[1].Value = <<"p">>

Program(children) == Node("PROGRAM", <<>>, <<>>, 1, children)

\* ahoy.ParseLint: [AST, Errors]
ParseLint(tokens) ==
    IF tokens = <<>> THEN [AST |-> Program(<<>>), Errors |-> <<>>]
    ELSE LET name == tokens[1].Value
             one == Node("NUMBER", <<"1">>, <<>>, 1, <<>>)
         IN CASE name = <<"a">> ->
                   [AST |-> Program(<<Node("VARIABLE_DECLARATION", name, <<>>, 1, <<one>>)>>),
                    Errors |-> <<>>]
              [] name = <<"b">> ->
                   [AST |-> Program(<<Node("CONSTANT_DECLARATION", name, <<>>, 1, <<one>>)>>),
                    Errors |-> IF Len(tokens) > 1
                               THEN <<ParseError(tokens[2].Line, 1, "unexpected token")>>
                               ELSE <<>>]
              [] name = <<"e">> ->
                   [AST |-> Program(<<Node("ENUM_DECLARATION", name, <<>>, 1, <<NilNode>>)>>),
                    Errors |-> <<>>]
              [] name = <<"f">> ->
                   [AST |-> Program(<<Node("FUNCTION", name, <<>>, 1, <<NilNode>>)>>),
                    Errors |-> <<>>]
              [] OTHER ->
                   [AST |-> Program(<<>>), Errors |-> <<ParseError(1, 1, "unexpected token")>>]

\* the error list the handlers write when the parse task panicked / timed out
PanicErrors == <<ParseError(1, 1, "Parser error")>>
TimeoutErrors == <<ParseError(1, 1, "Parser timeout - file may be too complex")>>

(***************************************************************************)
(* Diagnostics.  A pass returns [panic, diags].                            *)
(***************************************************************************)
\* uint32(x) of an int x.  A uint32 is kept as its two 16-bit halves, the value
\* being hi * 65536 + lo, so that the wrap-around of a negative x is exact.
ToUint32(x) == [hi |-> (x \div 65536) % 65536, lo |-> x % 65536]

Diagnostic(line, character, endCharacter, message, code) ==
    [Line |-> line, Character |-> character, EndCharacter |-> endCharacter,
     Severity |-> "Error", Source |-> "ahoy", Message |-> message, Code |-> code]

\* a message built from a fixed text and the name it quotes
Msg(text, name) == [text |-> text, name |-> name]

\* the conversion of one parse error at the end of publishDiagnostics
ParseErrorDiagnostic(err) ==
    LET startCol == IF err.Column - 1 < 0 THEN 0 ELSE err.Column - 1
        endCol == IF err.Column + 10 < startCol THEN startCol + 1 ELSE err.Column + 10
    IN Diagnostic(ToUint32(err.Line - 1), ToUint32(startCol), ToUint32(endCol),
                  Msg(err.Message, <<>>), "")

ParseErrorDiagnostics(errors) == [i \in 1..Len(errors) |-> ParseErrorDiagnostic(errors[i])]

\* the nodes in the order in which a pass's checkNode visits them (nil children are skipped)
RECURSIVE Preorder(_)
RECURSIVE PreorderRange(_, _, _)
PreorderRange(kids, lo, hi) ==
    IF lo > hi THEN <<>>
    ELSE IF lo = hi THEN Preorder(kids[lo])
    ELSE LET mid == (lo + hi) \div 2
         IN PreorderRange(kids, lo, mid) \o PreorderRange(kids, mid + 1, hi)

PreorderAll(kids, i) == PreorderRange(kids, i, Len(kids))

Preorder(node) ==
    IF IsNil(node) THEN <<>> ELSE <<node>> \o PreorderAll(node.Children, 1)

RECURSIVE FlattenRange(_, _, _)
FlattenRange(seqs, lo, hi) ==
    IF lo > hi THEN <<>>
    ELSE IF lo = hi THEN seqs[lo]
    ELSE LET mid == (lo + hi) \div 2
         IN FlattenRange(seqs, lo, mid) \o FlattenRange(seqs, mid + 1, hi)

Flatten(seqs) == FlattenRange(seqs, 1, Len(seqs))

\* the end column of a diagnostic on a node's line: len(lineText), or the fallback
EndChar(lines, line, fallback) ==
    LET n == IF line > 0 /\ line <= Len(lines) THEN ByteLen(lines[line]) ELSE 0
    IN IF n = 0 THEN ToUint32(fallback) ELSE ToUint32(n)

NodeDiagnostic(lines, node, fallback, message, code) ==
    Diagnostic(ToUint32(node.Line - 1), ToUint32(0), EndChar(lines, node.Line, fallback), message, code)

\* strings.TrimSpace(line) != "" && !strings.HasPrefix(trimmed, "?")
IsCodeLine(line) ==
    LET inked == SelectSeq(line.chars, LAMBDA c : c \notin {" ", "\t", "\r"})
    IN IF inked = <<>> THEN line.pad > 0 ELSE inked[1] # "?"

RECURSIVE firstCodeLine(_, _)
firstCodeLine(lines, i) ==
    IF i > Len(lines) THEN 0
    ELSE IF IsCodeLine(lines[i]) THEN i - 1 ELSE firstCodeLine(lines, i + 1)

\* checkProgramDeclarationPosition
checkProgramDeclarationPosition(doc) ==
    LET found == SelectSeq(Preorder(doc.AST), LAMBDA n : n.Type = "PROGRAM_DECLARATION")
    IN IF found = <<>> THEN <<>>
       ELSE IF found[1].Line > firstCodeLine(doc.Lines, 1) + 1
            THEN <<NodeDiagnostic(doc.Lines, found[1], 20,
                      Msg("Program declaration must be on the first line of the file", <<>>),
                      "program-position")>>
            ELSE <<>>

\* doc.SymbolTable.GlobalScope.Lookup(name); a nil GlobalScope faults
GlobalLookup(st, name) == ScopeLookup(st, st.GlobalScope, name)

constCheckNode(doc, st, node) ==
    LET hit == GlobalLookup(st, node.Value)
        isConst == hit # <<>> /\ hit[1].Kind = "Constant"
        fallback == Len(node.Value) + 10
    IN IF node.Value = <<>> THEN <<>>
       ELSE CASE node.Type = "ASSIGNMENT" /\ isConst ->
                   <<NodeDiagnostic(doc.Lines, node, fallback,
                        Msg("Cannot reassign constant", node.Value), "const-reassignment")>>
              [] node.Type = "VARIABLE_DECLARATION" /\ isConst /\ hit[1].Line < node.Line ->
                   <<NodeDiagnostic(doc.Lines, node, fallback,
                        Msg("Cannot declare variable - already declared as constant", node.Value),
                        "variable-const-collision")>>
              [] node.Type = "CONSTANT_DECLARATION" /\ isConst /\ hit[1].Line < node.Line ->
                   <<NodeDiagnostic(doc.Lines, node, fallback,
                        Msg("Cannot redeclare constant", node.Value), "const-redeclaration")>>
              [] OTHER -> <<>>

ConstCheckKinds == {"ASSIGNMENT", "VARIABLE_DECLARATION", "CONSTANT_DECLARATION"}

\* checkConstReassignment
checkConstReassignment(doc, st) ==
    LET nodes == SelectSeq(Preorder(doc.AST),
                           LAMBDA n : n.Type \in ConstCheckKinds /\ n.Value # <<>>)
    IN IF nodes # <<>> /\ st.GlobalScope = 0
       THEN [panic |-> TRUE, diags |-> <<>>]
       ELSE [panic |-> FALSE,
             diags |-> Flatten([i \in 1..Len(nodes) |-> constCheckNode(doc, st, nodes[i])])]

enumDuplicatesAcross(doc, node) ==
    LET enums == SelectSeq(Preorder(doc.AST), LAMBDA n : n.Type = "ENUM_DECLARATION")
        ids == Flatten([k \in 1..Len(enums) |->
                          SelectSeq(enums[k].Children, LAMBDA c : c.Type = "IDENTIFIER")])
        dups == SelectSeq([i \in 1..Len(ids) |-> [at |-> i, node |-> ids[i]]],
                          LAMBDA e : /\ \E k \in 1..Len(node.Children) : node.Children[k] = e.node
                                     /\ \E j \in 1..(e.at - 1) : ids[j].Value = e.node.Value)
    IN [i \in 1..Len(dups) |->
          Diagnostic(ToUint32(dups[i].node.Line - 1), ToUint32(0),
                     EndChar(doc.Lines, dups[i].node.Line, Len(dups[i].node.Value) + 10),
                     Msg("Duplicate enum member", dups[i].node.Value), "enum-duplicate-member")]

\* the identifier children of an enum that repeat an earlier identifier child
enumDuplicates(doc, node) ==
    LET ids == SelectSeq(node.Children, LAMBDA c : c.Type = "IDENTIFIER")
        dups == SelectSeq([i \in 1..Len(ids) |-> [at |-> i, node |-> ids[i]]],
                          LAMBDA e : \E j \in 1..(e.at - 1) : ids[j].Value = e.node.Value)
    IN [i \in 1..Len(dups) |->
          Diagnostic(ToUint32(dups[i].node.Line - 1), ToUint32(0),
                     EndChar(doc.Lines, dups[i].node.Line, Len(dups[i].node.Value) + 10),
                     Msg("Duplicate enum member", dups[i].node.Value), "enum-duplicate-member")]

\* checkEnumDuplicates.  The code ranges over a map of member names, whose
\* order Go leaves unspecified; the diagnostics are listed here in source order.
checkEnumDuplicates(doc) ==
    LET enums == SelectSeq(Preorder(doc.AST), LAMBDA n : n.Type = "ENUM_DECLARATION")
    IN IF \E i \in 1..Len(enums) : \E k \in 1..Len(enums[i].Children) : IsNil(enums[i].Children[k])
       THEN [panic |-> TRUE, diags |-> <<>>]
       ELSE [panic |-> FALSE,
             diags |-> Flatten([i \in 1..Len(enums) |-> enumDuplicates(doc, enums[i])])]

S_void == <<"v", "o", "i", "d">>
S_infer == <<"i", "n", "f", "e", "r">>
S_generic == <<"g", "e", "n", "e", "r", "i", "c">>
S_unknown == <<"u", "n", "k", "n", "o", "w", "n">>

\* strings.Split(s, ",")
RECURSIVE SplitComma(_, _, _)
SplitComma(s, i, cur) ==
    IF i > Len(s) THEN <<cur>>
    ELSE IF s[i] = "," THEN <<cur>> \o SplitComma(s, i + 1, <<>>)
    ELSE SplitComma(s, i + 1, Append(cur, s[i]))

WhiteSpace == {" ", "\t", "\n", "\r"}

TrimSpaceNot(s) == s

\* strings.TrimSpace(s)
RECURSIVE TrimSpace(_)
TrimSpace(s) ==
    IF s = <<>> THEN s
    ELSE IF s[1] \in WhiteSpace THEN TrimSpace(Tail(s))
    ELSE IF s[Len(s)] \in WhiteSpace THEN TrimSpace(SubSeq(s, 1, Len(s) - 1))
    ELSE s

\* a message that quotes two strings
Msg2(text, name, other) == [text |-> text, name |-> name, other |-> other]

\* inferReturnType
inferReturnType(node) ==
    IF IsNil(node) THEN S_void
    ELSE CASE node.Type = "NUMBER" -> IF Contains(node.Value, ".") THEN S_float ELSE S_int
           [] node.Type = "STRING" -> S_string
           [] node.Type = "BOOLEAN" -> S_bool
           [] OTHER -> S_unknown

\* the body of checkReturns at one RETURN_STATEMENT of a function declared returnType
returnCheck(doc, returnType, n) ==
    LET returnedType == inferReturnType(n.Children[1])
        expectedTypes == SplitComma(returnType, 1, <<>>)
        matches == \E i \in 1..Len(expectedTypes) :
                      \/ TrimSpace(expectedTypes[i]) = returnedType
                      \/ TrimSpace(expectedTypes[i]) = S_generic
    IN IF returnType = S_infer THEN <<>>
       ELSE IF returnType = S_void /\ Len(n.Children) > 0
       THEN <<NodeDiagnostic(doc.Lines, n, 30,
                 Msg("Expected void, got return type", returnedType),
                 "void-return-violation")>>
       ELSE IF returnType # <<>> /\ returnType # S_void /\ Len(n.Children) > 0
               /\ ~matches /\ returnedType # S_unknown
       THEN <<NodeDiagnostic(doc.Lines, n, 30,
                 Msg2("Expected return type, got", returnType, returnedType),
                 "return-type-mismatch")>>
       ELSE <<>>

functionReturnsTopLevel(doc, node) ==
    LET returnType == node.DataType
        returns == IF Len(node.Children) >= 2
                   THEN SelectSeq(Preorder(node.Children[2]),
                                  LAMBDA n : n.Type = "RETURN_STATEMENT")
                   ELSE <<>>
        hasReturn == /\ Len(node.Children) >= 2
                     /\ \E i \in 1..Len(node.Children[2].Children) :
                           node.Children[2].Children[i].Type = "RETURN_STATEMENT"
    IN Flatten([i \in 1..Len(returns) |-> returnCheck(doc, returnType, returns[i])])
       \o (IF returnType # <<>> /\ returnType # S_void /\ returnType # S_infer /\ ~hasReturn
           THEN <<NodeDiagnostic(doc.Lines, node, 30,
                     Msg("Function with return type must return a value", returnType),
                     "missing-return")>>
           ELSE <<>>)

\* checkNode of checkReturnTypeViolations at one FUNCTION node
functionReturns(doc, node) ==
    LET returnType == node.DataType
        returns == IF Len(node.Children) >= 2
                   THEN SelectSeq(Preorder(node.Children[2]),
                                  LAMBDA n : n.Type = "RETURN_STATEMENT")
                   ELSE <<>>
        hasReturn == returns # <<>>
    IN Flatten([i \in 1..Len(returns) |-> returnCheck(doc, returnType, returns[i])])
       \o (IF returnType # <<>> /\ returnType # S_void /\ returnType # S_infer /\ ~hasReturn
           THEN <<NodeDiagnostic(doc.Lines, node, 30,
                     Msg("Function with return type must return a value", returnType),
                     "missing-return")>>
           ELSE <<>>)

\* checkReturnTypeViolations
checkReturnTypeViolations(doc) ==
    LET funcs == SelectSeq(Preorder(doc.AST), LAMBDA n : n.Type = "FUNCTION")
    IN Flatten([i \in 1..Len(funcs) |-> functionReturns(doc, funcs[i])])

levCellNoInsertion(s1, s2, i, prev, cur) ==
    LET j == Len(cur)
        cost == IF s1[i] # s2[j] THEN 1 ELSE 0
        deletion == prev[j + 1] + 1
        substitution == prev[j] + cost
    IN IF substitution < deletion THEN substitution ELSE deletion

\* one cell of levenshteinDistance's matrix: cur holds matrix[i][0..j-1], prev is row i-1
levCell(s1, s2, i, prev, cur) ==
    LET j == Len(cur)
        cost == IF s1[i] # s2[j] THEN 1 ELSE 0
        deletion == prev[j + 1] + 1
        insertion == cur[j] + 1
        substitution == prev[j] + cost
        min1 == IF insertion < deletion THEN insertion ELSE deletion
    IN IF substitution < min1 THEN substitution ELSE min1

\* row i of the matrix, filled from left to right
RECURSIVE levRow(_, _, _, _, _)
levRow(s1, s2, i, prev, cur) ==
    IF Len(cur) > Len(s2) THEN cur
    ELSE levRow(s1, s2, i, prev, Append(cur, levCell(s1, s2, i, prev, cur)))

RECURSIVE levRows(_, _, _, _)
levRows(s1, s2, i, prev) ==
    IF i > Len(s1) THEN prev
    ELSE levRows(s1, s2, i + 1, levRow(s1, s2, i, prev, <<i>>))

\* levenshteinDistance
levenshteinDistance(s1, s2) ==
    IF Len(s1) = 0 THEN Len(s2)
    ELSE IF Len(s2) = 0 THEN Len(s1)
    ELSE levRows(s1, s2, 1, [j \in 1..(Len(s2) + 1) |-> j - 1])[Len(s2) + 1]

builtinFunctions ==
    << <<"p", "r", "i", "n", "t">>,
       <<"s", "p", "r", "i", "n", "t", "f">>,
       <<"a", "h", "o", "y">> >>

isBuiltinFunction(name) == \E i \in 1..Len(builtinFunctions) : builtinFunctions[i] = name

\* findSimilarFunction: the first name of least distance, with that distance
RECURSIVE similarFrom(_, _, _, _)
similarFrom(name, availableFuncs, i, best) ==
    IF i > Len(availableFuncs) THEN best
    ELSE LET distance == levenshteinDistance(name, availableFuncs[i])
         IN similarFrom(name, availableFuncs, i + 1,
                        IF distance < best.distance
                        THEN [match |-> availableFuncs[i], distance |-> distance]
                        ELSE best)

findSimilarFunctionFirst(name, availableFuncs) ==
    IF availableFuncs = <<>> THEN [match |-> <<>>, distance |-> 1000000]
    ELSE [match |-> availableFuncs[1], distance |-> 0]

findSimilarFunction(name, availableFuncs) ==
    similarFrom(name, availableFuncs, 1, [match |-> <<>>, distance |-> 1000000])

\* the names of the function symbols of the global scope
GlobalFunctions(st) ==
    {name \in DOMAIN st.scopes[st.GlobalScope].Symbols :
        st.scopes[st.GlobalScope].Symbols[name].Kind = "Function"}

\* the orders in which a range over the map GlobalScope.Symbols can meet them
FunctionOrders(st) ==
    LET names == GlobalFunctions(st)
    IN {order \in [1..Cardinality(names) -> names] :
           \A i, j \in DOMAIN order : i # j => order[i] # order[j]}

\* the message of an undefined-function diagnostic; hint is <<>> or <<similarFunc>>
FuncNotFound(name, hint) == [text |-> "func not found", name |-> name, hint |-> hint]

undefinedCall(doc, st, availableFuncs, node) ==
    LET funcName == node.Value
        hit == GlobalLookup(st, funcName)
        similar == findSimilarFunction(funcName, availableFuncs)
        threshold == IF Len(funcName) > 10 THEN Len(funcName) \div 3 ELSE 3
        hint == IF similar.distance <= threshold /\ similar.match # <<>>
                THEN <<similar.match>> ELSE <<>>
    IN IF isBuiltinFunction(funcName) THEN <<>>
       ELSE IF hit = <<>> \/ hit[1].Kind # "Function"
       THEN <<NodeDiagnostic(doc.Lines, node, Len(funcName) + 10,
                 FuncNotFound(funcName, hint), "undefined-function")>>
       ELSE <<>>

\* checkUndefinedFunctions; userFuncs is the order in which the range over
\* GlobalScope.Symbols met the function symbols (one of FunctionOrders)
checkUndefinedFunctions(doc, st, userFuncs) ==
    LET calls == SelectSeq(Preorder(doc.AST), LAMBDA n : n.Type = "CALL")
    IN IF st.GlobalScope = 0
       THEN [panic |-> TRUE, diags |-> <<>>]
       ELSE [panic |-> FALSE,
             diags |-> Flatten([i \in 1..Len(calls) |->
                          undefinedCall(doc, st, builtinFunctions \o userFuncs, calls[i])])]

Digits == <<"0", "1", "2", "3", "4", "5", "6", "7", "8", "9">>

RECURSIVE digitsOf(_)
digitsOf(n) == IF n = 0 THEN <<>> ELSE digitsOf(n \div 10) \o <<Digits[(n % 10) + 1]>>

intToStringLastDigit(n) == <<Digits[(n % 10) + 1]>>

\* intToString
intToString(n) ==
    IF n = 0 THEN <<"0">>
    ELSE IF n < 0 THEN <<"-">> \o digitsOf(0 - n)
    ELSE digitsOf(n)

\* ParameterInfo of one IDENTIFIER child of the parameter block
ParameterInfo(param) ==
    [Name |-> param.Value, Type |-> param.DataType, HasDefault |-> param.DefaultValue # <<>>]

requiredParamsAll(parameters) == Len(parameters)

\* sig.RequiredParams: the parameters without a default value
requiredParams(parameters) == Len(SelectSeq(parameters, LAMBDA p : ~p.HasDefault))

\* the FunctionSignature that collectFunctions builds at one FUNCTION node
FunctionSignature(node) ==
    LET idents == IF Len(node.Children) > 0 /\ node.Children[1].Type = "BLOCK"
                  THEN SelectSeq(node.Children[1].Children, LAMBDA c : c.Type = "IDENTIFIER")
                  ELSE <<>>
        parameters == [i \in 1..Len(idents) |-> ParameterInfo(idents[i])]
    IN [Name |-> node.Value, ReturnType |-> node.DataType, Parameters |-> parameters,
        RequiredParams |-> requiredParams(parameters), TotalParams |-> Len(parameters)]

\* funcSignatures[name] after collectFunctions: <<>> if absent, else the
\* signature of the last FUNCTION node of that name that the walk visits
funcSignature(ast, name) ==
    LET funcs == SelectSeq(Preorder(ast), LAMBDA n : n.Type = "FUNCTION" /\ n.Value = name)
    IN IF funcs = <<>> THEN <<>> ELSE <<FunctionSignature(funcs[Len(funcs)])>>

T_expected == <<"e", "x", "p", "e", "c", "t", "e", "d", " ">>
T_arguments_got == <<" ", "a", "r", "g", "u", "m", "e", "n", "t", "s", ",", " ", "g", "o", "t", " ">>
T_no_arguments_got == <<"e", "x", "p", "e", "c", "t", "e", "d", " ", "n", "o", " ", "a", "r", "g", "u", "m", "e", "n", "t", "s", ",", " ", "g", "o", "t", " ">>
T_1_argument_got == <<"e", "x", "p", "e", "c", "t", "e", "d", " ", "1", " ", "a", "r", "g", "u", "m", "e", "n", "t", ",", " ", "g", "o", "t", " ">>
T_none == <<"n", "o", "n", "e">>

\* the message of checkCalls for a call with argCount arguments; <<>> is ""
argCountMessage(sig, argCount) ==
    LET expectedMin == sig.RequiredParams
        expectedMax == sig.TotalParams
        range == T_expected \o intToString(expectedMin) \o <<"-">> \o intToString(expectedMax)
                 \o T_arguments_got \o intToString(argCount)
    IN IF argCount < expectedMin
       THEN IF expectedMin = expectedMax
            THEN IF expectedMin = 0 THEN T_no_arguments_got \o intToString(argCount)
                 ELSE IF expectedMin = 1 THEN T_1_argument_got \o T_none
                 ELSE T_expected \o intToString(expectedMin) \o T_arguments_got
                      \o intToString(argCount)
            ELSE range
       ELSE IF argCount > expectedMax
       THEN IF expectedMin = expectedMax
            THEN IF expectedMax = 1 THEN T_1_argument_got \o intToString(argCount)
                 ELSE T_expected \o intToString(expectedMax) \o T_arguments_got
                      \o intToString(argCount)
            ELSE range
       ELSE <<>>

argCountCall(doc, node) ==
    LET sig == funcSignature(doc.AST, node.Value)
        message == argCountMessage(sig[1], Len(node.Children))
    IN IF sig = <<>> THEN <<>>
       ELSE IF message = <<>> THEN <<>>
       ELSE <<NodeDiagnostic(doc.Lines, node, Len(node.Value) + 10, message,
                             "argument-count-mismatch")>>

\* checkFunctionCallArgumentCounts (the faults of its collectFunctions are
\* collectFunctionsPanics)
checkFunctionCallArgumentCounts(doc) ==
    LET calls == SelectSeq(Preorder(doc.AST), LAMBDA n : n.Type = "CALL")
    IN Flatten([i \in 1..Len(calls) |-> argCountCall(doc, calls[i])])

S_char == <<"c", "h", "a", "r">>

ArithmeticOps == {<<"+">>, <<"-">>, <<"*">>, <<"/">>, <<"%">>}
ComparisonOps == {<<"<">>, <<">">>, <<"<", "=">>, <<">", "=">>, <<"i", "s">>, <<"n", "o", "t">>}

\* inferExpressionType
RECURSIVE inferExpressionType(_)
inferExpressionType(node) ==
    IF IsNil(node) THEN S_unknown
    ELSE CASE node.Type = "NUMBER" -> IF Contains(node.Value, ".") THEN S_float ELSE S_int
           [] node.Type \in {"STRING", "F_STRING"} -> S_string
           [] node.Type = "CHAR" -> S_char
           [] node.Type = "BOOLEAN" -> S_bool
           [] node.Type = "ARRAY_LITERAL" -> S_array
           [] node.Type = "DICT_LITERAL" -> S_dict
           [] node.Type = "BINARY_OP" /\ Len(node.Children) >= 2 ->
                LET leftType == inferExpressionType(node.Children[1])
                    rightType == inferExpressionType(node.Children[2])
                IN IF node.Value \in ArithmeticOps /\ (leftType = S_float \/ rightType = S_float)
                   THEN S_float
                   ELSE IF node.Value \in ArithmeticOps /\ (leftType = S_int \/ rightType = S_int)
                   THEN S_int
                   ELSE IF node.Value \in ComparisonOps THEN S_bool
                   ELSE S_unknown
           [] OTHER -> S_unknown

\* the node kinds in which checkTypeMismatches compares DataType with the value
TypeCheckedKinds == {"ASSIGNMENT", "CONSTANT_DECLARATION"}

typeCheckNode(doc, node) ==
    LET expectedType == node.DataType
        actualType == inferExpressionType(node.Children[1])
    IN IF /\ Len(node.Children) > 0
          /\ actualType # S_unknown /\ actualType # expectedType /\ expectedType # S_generic
       THEN <<NodeDiagnostic(doc.Lines, node, 30,
                 Msg2("expected got", expectedType, actualType), "type-mismatch")>>
       ELSE <<>>

\* checkTypeMismatches
checkTypeMismatches(doc) ==
    LET nodes == SelectSeq(Preorder(doc.AST),
                           LAMBDA n : n.Type \in TypeCheckedKinds /\ n.DataType # <<>>)
    IN Flatten([i \in 1..Len(nodes) |-> typeCheckNode(doc, nodes[i])])

\* collectFunctions (in checkFunctionCallArgumentCounts and ...ArgumentTypes) reads
\* node.Children[0].Type and param.Type without a nil test
collectFunctionsPanics(ast) ==
    LET funcs == SelectSeq(Preorder(ast), LAMBDA n : n.Type = "FUNCTION")
    IN \E i \in 1..Len(funcs) :
          /\ Len(funcs[i].Children) > 0
          /\ \/ IsNil(funcs[i].Children[1])
             \/ /\ funcs[i].Children[1].Type = "BLOCK"
                /\ \E k \in 1..Len(funcs[i].Children[1].Children) :
                      IsNil(funcs[i].Children[1].Children[k])

\* the semantic passes at the head of publishDiagnostics, run when doc.AST != nil;
\* table is doc.SymbolTable (<<>> for nil) as read by this call.  The passes on
\* argument counts, argument types and type mismatches report nothing on ASTs
\* without calls and declared types; of them only the faults of collectFunctions
\* appear here.  The documents of the server's runs declare at most one
\* function, so the range over GlobalScope.Symbols has one order.
SemanticPasses(doc, table) ==
    LET program == checkProgramDeclarationPosition(doc)
    IN IF IsNil(doc.AST) THEN [panic |-> FALSE, diags |-> <<>>]
       ELSE IF table = <<>> THEN [panic |-> FALSE, diags |-> program]
       ELSE LET consts == checkConstReassignment(doc, table[1])
                returns == checkReturnTypeViolations(doc)
                enums == checkEnumDuplicates(doc)
                undefined == checkUndefinedFunctions(doc, table[1],
                                CHOOSE order \in FunctionOrders(table[1]) : TRUE)
            IN IF \/ consts.panic
                  \/ enums.panic
                  \/ table[1].GlobalScope = 0
                  \/ collectFunctionsPanics(doc.AST)
               THEN [panic |-> TRUE, diags |-> <<>>]
               ELSE [panic |-> FALSE,
                     diags |-> program \o consts.diags \o returns \o enums.diags
                               \o undefined.diags]

(***************************************************************************)
(* Completion (handleCompletion).  An item is [Label, Kind].               *)
(***************************************************************************)
\* isIdentifierChar
IdentifierChars ==
    {
     "a", "b", "c", "d", "e", "f", "g", "h", "i", "j", "k", "l", "m", "n", "o", "p", "q",
     "r", "s", "t", "u", "v", "w", "x", "y", "z", "A", "B", "C", "D", "E", "F", "G", "H",
     "I", "J", "K", "L", "M", "N", "O", "P", "Q", "R", "S", "T", "U", "V", "W", "X", "Y",
     "Z", "0", "1", "2", "3", "4", "5", "6", "7", "8", "9"}

isIdentifierChar(ch) == ch \in IdentifierChars

\* strings.HasPrefix
HasPrefix(s, prefix) == Len(prefix) <= Len(s) /\ SubSeq(s, 1, Len(prefix)) = prefix

CompletionItem(label, kind) == [Label |-> label, Kind |-> kind]

\* the labels of stringMethods, arrayMethods and dictMethods
stringMethods ==
 <<<<"l", "e", "n", "g", "t", "h">>, <<"u", "p", "p", "e", "r">>, <<"l", "o", "w", "e", "r">>,
   <<"r", "e", "p", "l", "a", "c", "e">>, <<"c", "o", "n", "t", "a", "i", "n", "s">>,
   <<"c", "a", "m", "e", "l", "_", "c", "a", "s", "e">>,
   <<"s", "n", "a", "k", "e", "_", "c", "a", "s", "e">>,
   <<"p", "a", "s", "c", "a", "l", "_", "c", "a", "s", "e">>,
   <<"k", "e", "b", "a", "b", "_", "c", "a", "s", "e">>, <<"m", "a", "t", "c", "h">>,
   <<"s", "p", "l", "i", "t">>, <<"c", "o", "u", "n", "t">>, <<"l", "p", "a", "d">>,
   <<"r", "p", "a", "d">>, <<"p", "a", "d">>, <<"s", "t", "r", "i", "p">>,
   <<"g", "e", "t", "_", "f", "i", "l", "e">>>>

arrayMethods ==
 <<<<"l", "e", "n", "g", "t", "h">>, <<"p", "u", "s", "h">>, <<"p", "o", "p">>,
   <<"s", "o", "r", "t">>, <<"r", "e", "v", "e", "r", "s", "e">>,
   <<"c", "o", "n", "t", "a", "i", "n", "s">>, <<"f", "i", "n", "d">>,
   <<"f", "i", "l", "t", "e", "r">>, <<"m", "a", "p">>, <<"j", "o", "i", "n">>,
   <<"s", "l", "i", "c", "e">>>>

dictMethods ==
 <<<<"s", "i", "z", "e">>, <<"c", "l", "e", "a", "r">>, <<"h", "a", "s">>,
   <<"h", "a", "s", "_", "a", "l", "l">>, <<"k", "e", "y", "s">>,
   <<"v", "a", "l", "u", "e", "s">>, <<"s", "o", "r", "t">>,
   <<"s", "t", "a", "b", "l", "e", "_", "s", "o", "r", "t">>, <<"m", "e", "r", "g", "e">>>>

keywords ==
 <<<<"i", "f">>, <<"e", "l", "s", "e">>, <<"e", "l", "s", "e", "i", "f">>, <<"a", "n", "i", "f">>,
   <<"t", "h", "e", "n">>, <<"l", "o", "o", "p">>, <<"i", "n">>, <<"t", "o">>, <<"d", "o">>,
   <<"f", "u", "n", "c">>, <<"r", "e", "t", "u", "r", "n">>, <<"s", "w", "i", "t", "c", "h">>,
   <<"o", "n">>, <<"w", "h", "e", "n">>, <<"i", "m", "p", "o", "r", "t">>,
   <<"p", "r", "o", "g", "r", "a", "m">>, <<"a", "h", "o", "y">>, <<"i", "s">>,
   <<"n", "o", "t">>, <<"a", "n", "d">>, <<"o", "r">>, <<"b", "r", "e", "a", "k">>,
   <<"s", "k", "i", "p">>, <<"t", "r", "u", "e">>, <<"f", "a", "l", "s", "e">>,
   <<"e", "n", "u", "m">>, <<"s", "t", "r", "u", "c", "t">>, <<"t", "y", "p", "e">>,
   <<"i", "n", "t">>, <<"f", "l", "o", "a", "t">>, <<"s", "t", "r", "i", "n", "g">>,
   <<"b", "o", "o", "l">>, <<"d", "i", "c", "t">>, <<"v", "e", "c", "t", "o", "r", "2">>,
   <<"c", "o", "l", "o", "r">>>>

operators ==
 <<<<"p", "l", "u", "s">>, <<"m", "i", "n", "u", "s">>, <<"t", "i", "m", "e", "s">>,
   <<"d", "i", "v">>, <<"m", "o", "d">>, <<"l", "e", "s", "s", "e", "r">>,
   <<"g", "r", "e", "a", "t", "e", "r">>>>

\* for _, x := range labels: append when prefix == "" || strings.HasPrefix(label, prefix)
addLabels(items, labels, prefix, kind) ==
    LET kept == SelectSeq(labels, LAMBDA label : prefix = <<>> \/ HasPrefix(label, prefix))
    IN items \o [i \in 1..Len(kept) |-> CompletionItem(kept[i], kind)]

addStringMethods(items, prefix) == addLabels(items, stringMethods, prefix, "Method")
addArrayMethods(items, prefix) == addLabels(items, arrayMethods, prefix, "Method")
addDictMethods(items, prefix) == addLabels(items, dictMethods, prefix, "Method")

\* for start >= 0 && (isIdentifierChar(line[start]) || line[start] == '_') { start-- }; start++
RECURSIVE identifierStart(_, _)
identifierStart(line, start) ==
    IF start >= 0 /\ (isIdentifierChar(ByteAt(line, start)) \/ ByteAt(line, start) = "_")
    THEN identifierStart(line, start - 1)
    ELSE start + 1

\* for identStart >= 0 && line[identStart] != quoteChar { identStart-- }
RECURSIVE quoteStart(_, _, _)
quoteStart(line, identStart, quoteChar) ==
    IF identStart >= 0 /\ ByteAt(line, identStart) # quoteChar
    THEN quoteStart(line, identStart - 1, quoteChar)
    ELSE identStart

\* for identStart >= 0 && count > 0 { count the brackets; identStart-- }; identStart++
RECURSIVE bracketStart(_, _, _, _, _)
bracketStart(line, identStart, count, open, close) ==
    IF identStart >= 0 /\ count > 0
    THEN bracketStart(line, identStart - 1,
                      IF ByteAt(line, identStart) = close THEN count + 1
                      ELSE IF ByteAt(line, identStart) = open THEN count - 1
                      ELSE count,
                      open, close)
    ELSE identStart + 1

NoDot == [isDotCompletion |-> FALSE, beforePrefix |-> <<>>, beforePrefixType |-> <<>>]

DotOf(line, identStart, identEnd, type) ==
    [isDotCompletion |-> TRUE, beforePrefix |-> Slice(line, identStart, identEnd + 1),
     beforePrefixType |-> type]

\* the block of handleCompletion that looks for a dot before the prefix
dotContext(line, character, prefix) ==
    LET checkPos == character - Len(prefix) - 1
        identEnd == checkPos - 1
        last == IF identEnd >= 0 THEN ByteAt(line, identEnd) ELSE ""
    IN IF ~(character > 0 /\ checkPos >= 0 /\ checkPos < ByteLen(line)
            /\ ByteAt(line, checkPos) = ".")
       THEN NoDot
       ELSE IF last \in {"\"", "'"}
       THEN LET identStart == quoteStart(line, identEnd - 1, last)
            IN IF identStart >= 0 /\ ByteAt(line, identStart) = last
               THEN DotOf(line, identStart, identEnd, S_string) ELSE NoDot
       ELSE IF last = "]"
       THEN LET identStart == bracketStart(line, identEnd - 1, 1, "[", "]")
            IN IF identStart >= 0 /\ ByteAt(line, identStart) = "["
               THEN DotOf(line, identStart, identEnd, S_array) ELSE NoDot
       ELSE IF last = "}"
       THEN LET identStart == bracketStart(line, identEnd - 1, 1, "{", "}")
            IN IF identStart >= 0 /\ ByteAt(line, identStart) = "{"
               THEN DotOf(line, identStart, identEnd, S_dict) ELSE NoDot
       ELSE LET identStart == identifierStart(line, identEnd)
            IN IF identStart <= identEnd THEN DotOf(line, identStart, identEnd, <<>>) ELSE NoDot

\* symbolTable.GetStructFields(typeName): the field symbols of the struct of
\* that name, none when no struct has the name
GetStructFields(st, typeName) ==
    LET symbols == st.scopes[st.GlobalScope].Symbols
    IN IF typeName \in DOMAIN symbols /\ symbols[typeName].Kind = "Struct"
       THEN {name \in DOMAIN symbols : symbols[name].Kind = "StructField"}
       ELSE {}

\* the names of the symbols of a kind in the global scope
GlobalSymbols(st, kind) ==
    {name \in DOMAIN st.scopes[st.GlobalScope].Symbols :
        st.scopes[st.GlobalScope].Symbols[name].Kind = kind}

\* the orders in which a range over a map can meet the keys names
RangeOrders(names) ==
    {order \in [1..Cardinality(names) -> names] :
        \A i, j \in DOMAIN order : i # j => order[i] # order[j]}

\* one order for each range over a map that handleCompletion can run
CompletionOrders(st) ==
    [fields : RangeOrders(GlobalSymbols(st, "StructField")),
     functions : RangeOrders(GlobalSymbols(st, "Function")),
     variables : RangeOrders(GlobalSymbols(st, "Variable")),
     constants : RangeOrders(GlobalSymbols(st, "Constant")),
     enumValues : RangeOrders(GlobalSymbols(st, "EnumValue"))]

\* the part of handleCompletion that answers after a dot
dotCompletion(doc, st, dot, prefix, order) ==
    LET hit == Lookup(st, dot.beforePrefix)
        sym_ == hit[1]
        fields == IF hit # <<>> /\ sym_.Kind \in {"Variable", "Constant"}
                  THEN GetStructFields(st, sym_.Type) ELSE {}
    IN IF dot.beforePrefixType = S_string THEN addStringMethods(<<>>, prefix)
       ELSE IF dot.beforePrefixType = S_array THEN addArrayMethods(<<>>, prefix)
       ELSE IF dot.beforePrefixType = S_dict THEN addDictMethods(<<>>, prefix)
       ELSE IF IsNil(doc.AST) \/ hit = <<>> THEN <<>>
       ELSE IF sym_.Kind = "Constant" THEN <<>>
       ELSE IF sym_.Type = S_string THEN addStringMethods(<<>>, prefix)
       ELSE IF sym_.Type = S_array THEN addArrayMethods(<<>>, prefix)
       ELSE IF sym_.Type = S_dict THEN addDictMethods(<<>>, prefix)
       ELSE IF fields # {} THEN addLabels(<<>>, order.fields, prefix, "Field")
       ELSE <<>>

\* the part of handleCompletion that answers outside a dot context
wordCompletion(doc, st, prefix, order) ==
    LET fixed == addLabels(addLabels(<<>>, keywords, prefix, "Keyword"),
                           operators, prefix, "Operator")
    IN IF IsNil(doc.AST) THEN fixed
       ELSE addLabels(addLabels(addLabels(addLabels(fixed,
                order.functions, prefix, "Function"),
                order.variables, prefix, "Variable"),
                order.constants, prefix, "Constant"),
                order.enumValues, prefix, "EnumMember")

\* handleCompletion on the document doc (<<>> when s.getDocument returns nil):
\* [panic, items], the items of the CompletionList it replies with
handleCompletion(doc, line, character, order) ==
    IF doc = <<>> \/ doc[1].Lines = <<>> THEN [panic |-> FALSE, items |-> <<>>]
    ELSE IF line >= Len(doc[1].Lines) THEN [panic |-> FALSE, items |-> <<>>]
    ELSE LET currentLine == doc[1].Lines[line + 1]
             prefix == IF character > 0
                       THEN Slice(currentLine, identifierStart(currentLine, character - 1),
                                  character)
                       ELSE <<>>
             dot == dotContext(currentLine, character, prefix)
             built == BuildSymbolTable(doc[1].AST)
             literal == dot.isDotCompletion /\ dot.beforePrefixType # <<>>
         IN IF ByteLen(currentLine) > MaxLineLen \/ character > ByteLen(currentLine)
            THEN [panic |-> FALSE, items |-> <<>>]
            ELSE IF ~literal /\ built.panic THEN [panic |-> TRUE, items |-> <<>>]
            ELSE [panic |-> FALSE,
                  items |-> IF dot.isDotCompletion
                            THEN dotCompletion(doc[1], built.st, dot, prefix, order)
                            ELSE wordCompletion(doc[1], built.st, prefix, order)]

(***************************************************************************)
(* Code actions (handleCodeAction).  An action is [Title, Kind,            *)
(* Diagnostics]; a diagnostic of the request is [Message, Code, Line].     *)
(***************************************************************************)
MaxDiagnostics == 5      \* maxDiagnostics
QuickFixStop == 10       \* the quick-fix loop stops at this many actions
ContextBelow == 8        \* context actions are added below this many actions
MaxActions == 15         \* the reply is cut to this many actions
MaxContextLine == 5000   \* generateContextActions answers nothing above this length

T_program ==
    <<"P", "r", "o", "g", "r", "a", "m", " ", "d", "e", "c", "l", "a", "r", "a", "t", "i",
      "o", "n", " ", "m", "u", "s", "t", " ", "b", "e", " ", "o", "n", " ", "t", "h", "e",
      " ", "f", "i", "r", "s", "t", " ", "l", "i", "n", "e">>
T_expected_do ==
    <<"e", "x", "p", "e", "c", "t", "e", "d", " ", "'", "d", "o", "'">>
T_missing_do ==
    <<"m", "i", "s", "s", "i", "n", "g", " ", "'", "d", "o", "'">>
T_expected_end ==
    <<"e", "x", "p", "e", "c", "t", "e", "d", " ", "'", "e", "n", "d", "'">>
T_missing_end ==
    <<"m", "i", "s", "s", "i", "n", "g", " ", "'", "e", "n", "d", "'">>
T_expected_then ==
    <<"e", "x", "p", "e", "c", "t", "e", "d", " ", "'", "t", "h", "e", "n", "'">>
T_missing_then ==
    <<"m", "i", "s", "s", "i", "n", "g", " ", "'", "t", "h", "e", "n", "'">>
T_expected_colon ==
    <<"e", "x", "p", "e", "c", "t", "e", "d", " ", "'", ":", "'">>
T_missing_assignment ==
    <<"m", "i", "s", "s", "i", "n", "g", " ", "a", "s", "s", "i", "g", "n", "m", "e", "n",
      "t">>
T_func ==
    <<"f", "u", "n", "c", " ">>
T_plus ==
    <<" ", "p", "l", "u", "s", " ">>
T_minus ==
    <<" ", "m", "i", "n", "u", "s", " ">>
T_times ==
    <<" ", "t", "i", "m", "e", "s", " ">>
T_is ==
    <<" ", "i", "s", " ">>

\* strings.Contains(s, sub)
ContainsString(s, sub) ==
    \E i \in 0..(Len(s) - Len(sub)) : SubSeq(s, i + 1, i + Len(sub)) = sub

\* strings.Contains(line, sub) on a line of the document
LineContains(line, sub) == ContainsString(line.chars, sub)

CodeAction(title, kind, diagnostics) ==
    [Title |-> title, Kind |-> kind, Diagnostics |-> diagnostics]

\* createMoveProgramToTopAction: <<>> for nil, <<action>> otherwise
createMoveProgramToTopAction(doc, diagnostic) ==
    LET found == SelectSeq(Preorder(doc.AST), LAMBDA n : n.Type = "PROGRAM_DECLARATION")
        programNode == found[1]
        inRange == programNode.Line > 0 /\ programNode.Line <= Len(doc.Lines)
        programLine == doc.Lines[programNode.Line]
    IN IF IsNil(doc.AST) \/ found = <<>> THEN <<>>
       ELSE IF ~inRange THEN <<>>
       ELSE IF TrimSpace(programLine.chars) = <<>> /\ programLine.pad = 0 THEN <<>>
       ELSE <<CodeAction("Move program declaration to top of file", "quickfix", <<diagnostic>>)>>

\* generateQuickFixes
generateQuickFixes(doc, diagnostic) ==
    LET message == diagnostic.Message
        fix(title) == <<CodeAction(title, "quickfix", <<diagnostic>>)>>
        either(a, b) == ContainsString(message, a) \/ ContainsString(message, b)
    IN IF doc.SymbolTable = <<>> THEN <<>>
       ELSE (IF ContainsString(message, T_program) \/ diagnostic.Code = "program-position"
             THEN createMoveProgramToTopAction(doc, diagnostic) ELSE <<>>)
            \o (IF either(T_expected_do, T_missing_do) THEN fix("Add 'do' keyword") ELSE <<>>)
            \o (IF either(T_expected_end, T_missing_end) THEN fix("Add 'end' keyword") ELSE <<>>)
            \o (IF either(T_expected_then, T_missing_then) THEN fix("Add 'then' keyword") ELSE <<>>)
            \o (IF either(T_expected_colon, T_missing_assignment)
                THEN fix("Add ':' for assignment") ELSE <<>>)

\* the refactorings generateContextActions offers on a line
refactorings(line) ==
    LET offer(sub, title) ==
            IF LineContains(line, sub) THEN <<CodeAction(title, "refactor", <<>>)>> ELSE <<>>
    IN offer(T_func, "Add function documentation")
       \o offer(T_plus, "Convert 'plus' to '+'")
       \o offer(T_minus, "Convert 'minus' to '-'")
       \o offer(T_times, "Convert 'times' to '*'")
       \o offer(T_is, "Convert 'is' to '=='")

generateContextActionsBelowMaxLineLen(doc, startLine) ==
    IF doc.Lines = <<>> \/ startLine >= Len(doc.Lines) THEN <<>>
    ELSE IF ByteLen(doc.Lines[startLine + 1]) > MaxLineLen THEN <<>>
    ELSE refactorings(doc.Lines[startLine + 1])

\* generateContextActions(doc, rng), startLine being rng.Start.Line
generateContextActions(doc, startLine) ==
    IF doc.Lines = <<>> \/ startLine >= Len(doc.Lines) THEN <<>>
    ELSE IF ByteLen(doc.Lines[startLine + 1]) > MaxLineLen THEN <<>>
    ELSE IF ByteLen(doc.Lines[startLine + 1]) > MaxContextLine THEN <<>>
    ELSE refactorings(doc.Lines[startLine + 1])

\* for _, diagnostic := range params.Context.Diagnostics, from the i-th on
RECURSIVE quickFixLoop(_, _, _, _, _)
quickFixLoop(doc, diagnostics, i, diagCount, actions) ==
    IF i > Len(diagnostics) \/ diagCount >= MaxDiagnostics THEN actions
    ELSE LET more == actions \o generateQuickFixes(doc, diagnostics[i])
         IN IF Len(more) >= QuickFixStop THEN more
            ELSE quickFixLoop(doc, diagnostics, i + 1, diagCount + 1, more)

\* what the goroutine of handleCodeAction assigns to result, for the document
\* doc (<<>> when s.getDocument returns nil)
codeActions(doc, diagnostics, startLine) ==
    IF doc = <<>> THEN <<>>
    ELSE IF doc[1].SymbolTable = <<>> \/ ByteLen(doc[1].Content) = 0 THEN <<>>
    ELSE LET fixes == quickFixLoop(doc[1], diagnostics, 1, 0, <<>>)
             actions == IF Len(fixes) < ContextBelow
                        THEN fixes \o generateContextActions(doc[1], startLine)
                        ELSE fixes
         IN IF Len(actions) > MaxActions THEN SubSeq(actions, 1, MaxActions) ELSE actions

\* case <-timeoutCtx.Done() of the select in handleCodeAction
timeoutNever(fired) == FALSE

timeoutReady(fired) == fired

(***************************************************************************)
(* Locations sent by handleDefinition and handleDocumentSymbol.            *)
(***************************************************************************)
\* the Range of the Location handleDefinition replies with
definitionLocation(symbol) ==
    [Line |-> ToUint32(symbol.Line - 1), Character |-> ToUint32(symbol.Column),
     EndLine |-> ToUint32(symbol.Line - 1),
     EndCharacter |-> ToUint32(symbol.Column + Len(symbol.Name))]

\* symbolToDocumentSymbol: Range and SelectionRange are the same range
symbolToDocumentSymbol(symbol) ==
    [Name |-> symbol.Name, Kind |-> symbol.Kind, Detail |-> symbol.Type,
     Line |-> ToUint32(symbol.Line - 1), Character |-> ToUint32(symbol.Column),
     EndLine |-> ToUint32(symbol.Line - 1),
     EndCharacter |-> ToUint32(symbol.Column + Len(symbol.Name))]

(***************************************************************************)
(* The outline (handleDocumentSymbol over GetAllSymbols).                  *)
(***************************************************************************)
\* collectSymbols stops once it holds more than this many symbols
MaxCollected == 1000

\* collectSymbols: the range over scope.Symbols meets the names in the order
\* order[scope]; it appends until the list holds more than MaxCollected and
\* then returns without visiting the children
RECURSIVE collectSymbols(_, _, _, _)
RECURSIVE collectChildren(_, _, _, _, _)
collectChildren(st, kids, i, symbols, order) ==
    IF i > Len(kids) THEN symbols
    ELSE collectChildren(st, kids, i + 1, collectSymbols(st, kids[i], symbols, order), order)

collectSymbols(st, scope, symbols, order) ==
    IF scope = 0 THEN symbols
    ELSE IF Len(symbols) > MaxCollected THEN symbols
    ELSE LET names == order[scope]
             room == (MaxCollected + 1) - Len(symbols)
             taken == IF Len(names) < room THEN Len(names) ELSE room
             own == [i \in 1..taken |-> st.scopes[scope].Symbols[names[i]]]
         IN IF Len(names) >= room THEN symbols \o own
            ELSE collectChildren(st, st.scopes[scope].Children, 1, symbols \o own, order)

\* SymbolTable.GetAllSymbols
GetAllSymbols(st, order) == collectSymbols(st, st.GlobalScope, <<>>, order)

shouldIncludeAll(symbol) == TRUE

shouldIncludeInOutline(symbol) ==
    symbol.Kind \in {"Function", "Enum", "Struct", "Constant", "Variable"}

\* handleDocumentSymbol: <<>> is the nil reply, <<symbols>> the list
handleDocumentSymbol(doc, order) ==
    IF doc = <<>> \/ doc[1].SymbolTable = <<>> THEN <<>>
    ELSE LET allSymbols == GetAllSymbols(doc[1].SymbolTable[1], order)
             included == SelectSeq(allSymbols, shouldIncludeInOutline)
         IN <<[i \in 1..Len(included) |-> symbolToDocumentSymbol(included[i])]>>

(***************************************************************************)
(* The server: the store s.documents under s.mu, the Document objects, the *)
(* request handlers run by Handle and the parse tasks they start.          *)
(***************************************************************************)
MaxWorkers == 2      \* requests being handled at the same time
MaxReqs == 2         \* requests dispatched in one run
MaxTimeouts == 1     \* parse deadlines that elapse in one run

Workers == 1..MaxWorkers
URIs == {"u1", "u2"}

\* the texts editors send
Texts == {TxtVar, TxtConst}

\* texts on which the parser, the symbol-table build or a diagnostic pass faults,
\* and a text above the size limit
FaultTexts == {TxtEnum, TxtFunc, TxtParsePanic, TxtTokenPanic, TxtHuge}

VARIABLES
    documents,   \* s.documents: URI -> index into docs, 0 when the URI has no entry
    docs,        \* the Document objects allocated so far
    mu,          \* s.mu is write-locked
    handler,     \* per worker: the request it runs and where it is in the handler
    tasks,       \* the parse goroutines started so far
    published,   \* per URI: the last publishDiagnostics notification, <<>> before the first
    reply,       \* per worker: what the reply of its last finished request was
    nreq,        \* requests dispatched so far
    ntimeout,    \* parse deadlines elapsed so far
    sym,         \* a symbol table exercised on its own: see SpecSym
    diag,        \* the diagnostic passes exercised on their own: see SpecDiag and SpecLev
    req          \* a request handler exercised on its own: see SpecComp

vars == <<documents, docs, mu, handler, tasks, published, reply, nreq, ntimeout, sym, diag, req>>

\* the value of sym while the server runs
NoSym == [phase |-> "none"]
\* the value of diag while the server or the symbol table runs
NoDiag == [phase |-> "none"]
\* the value of req while no request is examined on its own
NoReq == [phase |-> "none"]

Document(uri, content, version) ==
    [URI |-> uri, Content |-> content, Lines |-> Split(content), Version |-> version,
     Tokens |-> <<>>, AST |-> NilNode, Errors |-> <<>>, SymbolTable |-> <<>>]

Idle ==
    [pc |-> "idle", method |-> "", uri |-> "", text |-> EmptyText, changes |-> 0,
     version |-> 0, doc |-> 0, task |-> 0, timeout |-> FALSE, word |-> <<>>, diags |-> <<>>]

Request(method, uri, text, changes, version) ==
    [Idle EXCEPT !.pc = "start", !.method = method, !.uri = uri, !.text = text,
                 !.changes = changes, !.version = version]

\* a parse goroutine: the Document it writes to and where it is; at "done" it has
\* sent on parseDone (a buffered channel, so the send never waits for the handler)
Task(doc) == [doc |-> doc, pc |-> "tokenize"]

\* a reply: the result (<<>> is null) or the error it carries
NoReply == [method |-> "", uri |-> "", kind |-> "none", result |-> <<>>, error |-> ""]
Reply(h, kind, result, error) ==
    [method |-> h.method, uri |-> h.uri, kind |-> kind, result |-> result, error |-> error]

\* the Document a handleDidOpen of this text leaves in the store when its parse
\* task finishes in time, and the diagnostics it publishes for it
OpenedDocument(uri, text) ==
    LET parsed == ParseLint(Tokenize(text))
    IN [Document(uri, text, 0) EXCEPT !.Tokens = Tokenize(text), !.AST = parsed.AST,
                                      !.Errors = parsed.Errors,
                                      !.SymbolTable = <<BuildSymbolTable(parsed.AST).st>>]

OpenedDiagnostics(doc) ==
    SemanticPasses(doc, doc.SymbolTable).diags \o ParseErrorDiagnostics(doc.Errors)

\* the documents of a quiet server: the URIs opened (and answered) before the run
InitDocs(opened) == [i \in 1..Len(opened) |-> OpenedDocument(opened[i], TxtVar)]

\* A run starts from a quiet server: no request in flight, the store empty (the
\* state NewServer returns) or holding documents whose didOpen has completed.
Init ==
    /\ \E opened \in {<<>>, <<"u1">>} :
          /\ docs = InitDocs(opened)
          /\ documents = [u \in URIs |->
                IF \E i \in 1..Len(opened) : opened[i] = u
                THEN CHOOSE i \in 1..Len(opened) : opened[i] = u
                ELSE 0]
          /\ published = [u \in URIs |->
                IF \E i \in 1..Len(opened) : opened[i] = u
                THEN <<OpenedDiagnostics(OpenedDocument(u, TxtVar))>>
                ELSE <<>>]
    /\ mu = FALSE
    /\ handler = [w \in Workers |-> Idle]
    /\ tasks = <<>>
    /\ reply = [w \in Workers |-> NoReply]
    /\ nreq = 0
    /\ ntimeout = 0
    /\ req = NoReq
    /\ sym = NoSym
    /\ diag = NoDiag

\* the handler returns having called reply(ctx, result, nil)
Finish(w, result) ==
    /\ reply' = [reply EXCEPT ![w] = Reply(handler[w], "ok", result, "")]
    /\ handler' = [handler EXCEPT ![w] = Idle]

FailUnnoticed(w, error) == Finish(w, <<>>)

\* the handler returns having called reply(ctx, nil, err)
Fail(w, error) ==
    /\ reply' = [reply EXCEPT ![w] = Reply(handler[w], "error", <<>>, error)]
    /\ handler' = [handler EXCEPT ![w] = Idle]

\* a panic unwinds to the deferred recover of Handle, which replies with an error
Panic(w) == Fail(w, "handler panic")

Goto(w, pc) == handler' = [handler EXCEPT ![w].pc = pc]

\* the connection hands the next request to Handle on the first free worker
Dispatch(w, method, uri, text, changes) ==
    /\ nreq < MaxReqs
    /\ handler[w].pc = "idle"
    /\ \A v \in Workers : v < w => handler[v].pc # "idle"
    /\ nreq' = nreq + 1
    /\ handler' = [handler EXCEPT ![w] = Request(method, uri, text, changes, nreq + 1)]
    /\ UNCHANGED <<sym, diag, req, documents, docs, mu, tasks, published, reply, ntimeout>>

(***************************************************************************)
(* The parse goroutine of handleDidOpen / handleDidChange.                 *)
(***************************************************************************)
\* doc.Tokens = ahoy.Tokenize(doc.Content), or the deferred recover after a panic
TaskTokenize(t) ==
    LET d == tasks[t].doc IN
    /\ tasks[t].pc = "tokenize"
    /\ IF TokenizePanics(docs[d].Content)
       THEN /\ docs' = [docs EXCEPT ![d].Errors = PanicErrors, ![d].AST = NilNode,
                                    ![d].Tokens = <<>>]
            /\ tasks' = [tasks EXCEPT ![t].pc = "done"]
       ELSE /\ docs' = [docs EXCEPT ![d].Tokens = Tokenize(docs[d].Content)]
            /\ tasks' = [tasks EXCEPT ![t].pc = "parse"]
    /\ UNCHANGED <<sym, diag, req, documents, mu, handler, published, reply, nreq, ntimeout>>

\* doc.AST, doc.Errors = ahoy.ParseLint(doc.Tokens), then the deferred
\* parseDone <- true (with the recover's writes after a panic)
TaskParse(t) ==
    LET d == tasks[t].doc
        res == ParseLint(docs[d].Tokens)
    IN
    /\ tasks[t].pc = "parse"
    /\ IF ParseLintPanics(docs[d].Tokens)
       THEN /\ docs' = [docs EXCEPT ![d].Errors = PanicErrors, ![d].AST = NilNode,
                                    ![d].Tokens = <<>>]
            /\ tasks' = [tasks EXCEPT ![t].pc = "done"]
       ELSE /\ docs' = [docs EXCEPT ![d].AST = res.AST, ![d].Errors = res.Errors]
            /\ tasks' = [tasks EXCEPT ![t].pc = "done"]
    /\ UNCHANGED <<sym, diag, req, documents, mu, handler, published, reply, nreq, ntimeout>>

\* select { case <-parseDone: }
AwaitParse(w, next) ==
    /\ tasks[handler[w].task].pc = "done"
    /\ Goto(w, next)
    /\ UNCHANGED <<sym, diag, req, documents, docs, mu, tasks, published, reply, nreq, ntimeout>>

\* select { case <-time.After(5 * time.Second): }; the task is left running
ParseTimeout(w, next) ==
    LET d == handler[w].doc IN
    /\ ntimeout < MaxTimeouts
    /\ ntimeout' = ntimeout + 1
    /\ docs' = [docs EXCEPT ![d].Errors = TimeoutErrors, ![d].AST = NilNode, ![d].Tokens = <<>>]
    /\ handler' = [handler EXCEPT ![w].pc = next, ![w].timeout = TRUE]
    /\ UNCHANGED <<sym, diag, req, documents, mu, tasks, published, reply, nreq>>

(***************************************************************************)
(* handleDidOpen                                                           *)
(***************************************************************************)
\* the size test, the new Document and the start of its parse goroutine
DidOpenStart(w) ==
    LET h == handler[w] IN
    /\ h.pc = "start" /\ h.method = "didOpen"
    /\ IF ByteLen(h.text) > MaxFileSize
       THEN /\ Fail(w, "file too large")
            /\ UNCHANGED <<documents, docs, mu, tasks, published, nreq, ntimeout>>
       ELSE /\ docs' = Append(docs, Document(h.uri, h.text, h.version))
            /\ tasks' = Append(tasks, Task(Len(docs) + 1))
            /\ handler' = [handler EXCEPT ![w].pc = "open_wait", ![w].doc = Len(docs) + 1,
                                          ![w].task = Len(tasks) + 1]
            /\ UNCHANGED <<documents, mu, published, reply, nreq, ntimeout>>
    /\ UNCHANGED <<sym, diag, req>>

DidOpenParsed(w) == handler[w].pc = "open_wait" /\ AwaitParse(w, "open_build")

DidOpenTimeout(w) == handler[w].pc = "open_wait" /\ ParseTimeout(w, "open_build")

\* the symbol table of the new Document, which no other handler can reach yet, and
\* s.mu.Lock(); s.documents[doc.URI] = doc; s.mu.Unlock()
DidOpenStore(w) ==
    LET d == handler[w].doc
        built == BuildSymbolTable(docs[d].AST)
    IN
    /\ handler[w].pc = "open_build"
    /\ IF built.panic
       THEN /\ Panic(w)
            /\ UNCHANGED <<documents, docs>>
       ELSE /\ ~mu
            /\ docs' = [docs EXCEPT ![d].SymbolTable = <<built.st>>]
            /\ documents' = [documents EXCEPT ![docs[d].URI] = d]
            /\ Goto(w, "pub_passes")
            /\ UNCHANGED reply
    /\ UNCHANGED <<sym, diag, req, mu, tasks, published, nreq, ntimeout>>

(***************************************************************************)
(* handleDidChange: everything from s.mu.Lock() to s.mu.Unlock() runs with *)
(* the store write-locked.                                                 *)
(***************************************************************************)
DidChangeLock(w) ==
    LET h == handler[w]
        d == documents[h.uri]
    IN
    /\ h.pc = "start" /\ h.method = "didChange"
    /\ ~mu
    /\ IF d = 0
       THEN /\ Fail(w, "document not found")
            /\ UNCHANGED mu
       ELSE IF h.changes = 0
       THEN /\ handler' = [handler EXCEPT ![w].pc = "chg_unlock", ![w].doc = d]
            /\ mu' = TRUE
            /\ UNCHANGED reply
       ELSE IF ByteLen(h.text) > MaxFileSize
       THEN /\ Finish(w, <<>>)
            /\ UNCHANGED mu
       ELSE /\ handler' = [handler EXCEPT ![w].pc = "chg_clear", ![w].doc = d]
            /\ mu' = TRUE
            /\ UNCHANGED reply
    /\ UNCHANGED <<sym, diag, req, documents, docs, tasks, published, nreq, ntimeout>>

\* if doc.SymbolTable != nil { doc.SymbolTable.Clear()
DidChangeClear(w) ==
    LET d == handler[w].doc IN
    /\ handler[w].pc = "chg_clear"
    /\ docs' = IF docs[d].SymbolTable # <<>>
               THEN [docs EXCEPT ![d].SymbolTable = <<Clear(docs[d].SymbolTable[1])>>]
               ELSE docs
    /\ Goto(w, "chg_reset")
    /\ UNCHANGED <<sym, diag, req, documents, mu, tasks, published, reply, nreq, ntimeout>>

\* doc.SymbolTable = nil }; doc.Tokens = nil; doc.AST = nil; doc.Errors = nil
DidChangeReset(w) ==
    LET d == handler[w].doc IN
    /\ handler[w].pc = "chg_reset"
    /\ docs' = [docs EXCEPT ![d].SymbolTable = <<>>, ![d].Tokens = <<>>, ![d].AST = NilNode,
                            ![d].Errors = <<>>]
    /\ Goto(w, "chg_content")
    /\ UNCHANGED <<sym, diag, req, documents, mu, tasks, published, reply, nreq, ntimeout>>

\* doc.Content = params.ContentChanges[0].Text; doc.Lines = strings.Split(doc.Content, "\n");
\* doc.Version = ...; go func() {...}()
DidChangeContent(w) ==
    LET d == handler[w].doc IN
    /\ handler[w].pc = "chg_content"
    /\ docs' = [docs EXCEPT ![d].Content = handler[w].text, ![d].Lines = Split(handler[w].text),
                            ![d].Version = handler[w].version]
    /\ tasks' = Append(tasks, Task(d))
    /\ handler' = [handler EXCEPT ![w].pc = "chg_wait", ![w].task = Len(tasks) + 1]
    /\ UNCHANGED <<sym, diag, req, documents, mu, published, reply, nreq, ntimeout>>

DidChangeParsed(w) == handler[w].pc = "chg_wait" /\ AwaitParse(w, "chg_build")

DidChangeTimeout(w) == handler[w].pc = "chg_wait" /\ ParseTimeout(w, "chg_build")

\* if doc.AST != nil { doc.SymbolTable = BuildSymbolTable(doc.AST) } else { NewSymbolTable() }
\* A panic of the build unwinds to Handle: s.mu.Unlock() is not deferred and never runs.
DidChangeBuild(w) ==
    LET d == handler[w].doc
        built == BuildSymbolTable(docs[d].AST)
    IN
    /\ handler[w].pc = "chg_build"
    /\ IF built.panic
       THEN /\ Panic(w)
            /\ UNCHANGED docs
       ELSE /\ docs' = [docs EXCEPT ![d].SymbolTable = <<built.st>>]
            /\ Goto(w, "chg_unlock")
            /\ UNCHANGED reply
    /\ UNCHANGED <<sym, diag, req, documents, mu, tasks, published, nreq, ntimeout>>

DidChangeUnlock(w) ==
    /\ handler[w].pc = "chg_unlock"
    /\ mu' = FALSE
    /\ Goto(w, "pub_passes")
    /\ UNCHANGED <<sym, diag, req, documents, docs, tasks, published, reply, nreq, ntimeout>>

(***************************************************************************)
(* publishDiagnostics(ctx, doc), called by handleDidOpen and               *)
(* handleDidChange after the store lock is released.                       *)
(***************************************************************************)
PublishPasses(w) ==
    LET doc == docs[handler[w].doc]
        passes == SemanticPasses(doc, doc.SymbolTable)
    IN
    /\ handler[w].pc = "pub_passes"
    /\ IF passes.panic
       THEN Panic(w)
       ELSE /\ handler' = [handler EXCEPT ![w].pc = "pub_errors", ![w].diags = passes.diags]
            /\ UNCHANGED reply
    /\ UNCHANGED <<sym, diag, req, documents, docs, mu, tasks, published, nreq, ntimeout>>

\* the conversion of doc.Errors, s.conn.Notify(...), and the handler's reply(ctx, nil, nil)
PublishErrors(w) ==
    LET doc == docs[handler[w].doc] IN
    /\ handler[w].pc = "pub_errors"
    /\ published' = [published EXCEPT ![doc.URI] =
                        <<handler[w].diags \o ParseErrorDiagnostics(doc.Errors)>>]
    /\ Finish(w, <<>>)
    /\ UNCHANGED <<sym, diag, req, documents, docs, mu, tasks, nreq, ntimeout>>

(***************************************************************************)
(* handleDidClose                                                          *)
(***************************************************************************)
\* s.mu.Lock(); doc := s.documents[uri]
DidCloseLock(w) ==
    LET h == handler[w] IN
    /\ h.pc = "start" /\ h.method = "didClose"
    /\ ~mu
    /\ mu' = TRUE
    /\ handler' = [handler EXCEPT ![w].pc = IF documents[h.uri] # 0 THEN "cls_clear" ELSE "cls_delete",
                                  ![w].doc = documents[h.uri]]
    /\ UNCHANGED <<sym, diag, req, documents, docs, tasks, published, reply, nreq, ntimeout>>

\* if doc.SymbolTable != nil { doc.SymbolTable.Clear()
DidCloseClear(w) ==
    LET d == handler[w].doc IN
    /\ handler[w].pc = "cls_clear"
    /\ docs' = IF docs[d].SymbolTable # <<>>
               THEN [docs EXCEPT ![d].SymbolTable = <<Clear(docs[d].SymbolTable[1])>>]
               ELSE docs
    /\ Goto(w, "cls_reset")
    /\ UNCHANGED <<sym, diag, req, documents, mu, tasks, published, reply, nreq, ntimeout>>

\* doc.SymbolTable = nil }; Tokens, AST, Errors = nil; doc.Content = ""; doc.Lines = nil
DidCloseReset(w) ==
    LET d == handler[w].doc IN
    /\ handler[w].pc = "cls_reset"
    /\ docs' = [docs EXCEPT ![d].SymbolTable = <<>>, ![d].Tokens = <<>>, ![d].AST = NilNode,
                            ![d].Errors = <<>>, ![d].Content = EmptyText, ![d].Lines = <<>>]
    /\ Goto(w, "cls_delete")
    /\ UNCHANGED <<sym, diag, req, documents, mu, tasks, published, reply, nreq, ntimeout>>

\* delete(s.documents, uri); s.mu.Unlock()
DidCloseDelete(w) ==
    /\ handler[w].pc = "cls_delete"
    /\ documents' = [documents EXCEPT ![handler[w].uri] = 0]
    /\ mu' = FALSE
    /\ Goto(w, "cls_notify")
    /\ UNCHANGED <<sym, diag, req, docs, tasks, published, reply, nreq, ntimeout>>

\* s.conn.Notify(publishDiagnostics, empty list); reply(ctx, nil, nil)
DidCloseNotify(w) ==
    /\ handler[w].pc = "cls_notify"
    /\ published' = [published EXCEPT ![handler[w].uri] = << <<>> >>]
    /\ Finish(w, <<>>)
    /\ UNCHANGED <<sym, diag, req, documents, docs, mu, tasks, nreq, ntimeout>>

(***************************************************************************)
(* handleHover, the reader: it fetches the Document reference under the    *)
(* read lock and then reads the Document's fields without any lock.        *)
(***************************************************************************)
\* the keys of getKeywordHover's table
Keywords ==
    {<<"i", "f">>, <<"e", "l", "s", "e">>, <<"e", "l", "s", "e", "i", "f">>,
     <<"a", "n", "i", "f">>, <<"t", "h", "e", "n">>, <<"d", "o">>, <<"e", "n", "d">>,
     <<"l", "o", "o", "p">>, <<"i", "n">>, <<"t", "o">>, <<"f", "u", "n", "c">>,
     <<"r", "e", "t", "u", "r", "n">>, <<"b", "r", "e", "a", "k">>, <<"s", "k", "i", "p">>,
     <<"s", "w", "i", "t", "c", "h">>, <<"o", "n">>, <<"w", "h", "e", "n">>,
     <<"i", "m", "p", "o", "r", "t">>, <<"a", "h", "o", "y">>, <<"i", "s">>,
     <<"n", "o", "t">>, <<"a", "n", "d">>, <<"o", "r">>, <<"t", "r", "u", "e">>,
     <<"f", "a", "l", "s", "e">>, <<"e", "n", "u", "m">>, <<"s", "t", "r", "u", "c", "t">>,
     <<"t", "y", "p", "e">>, <<"i", "n", "t">>, <<"f", "l", "o", "a", "t">>,
     <<"s", "t", "r", "i", "n", "g">>, <<"b", "o", "o", "l">>, <<"d", "i", "c", "t">>,
     <<"p", "l", "u", "s">>, <<"m", "i", "n", "u", "s">>, <<"t", "i", "m", "e", "s">>,
     <<"d", "i", "v">>, <<"m", "o", "d">>, <<"l", "e", "s", "s", "e", "r">>,
     <<"g", "r", "e", "a", "t", "e", "r">>}

getKeywordHoverNone(word) == <<>>

getKeywordHover(word) == IF word \in Keywords THEN <<[kind |-> "keyword", word |-> word]>> ELSE <<>>

\* buildHoverText renders the symbol; the range is taken from its line and column
SymbolHover(symbol) ==
    <<[kind |-> "symbol", symbol |-> symbol,
       line |-> ToUint32(symbol.Line - 1), character |-> ToUint32(symbol.Column),
       endCharacter |-> ToUint32(symbol.Column + Len(symbol.Name))]>>

\* the position hover requests ask about
HoverLine == 0
HoverCharacter == 0

\* getDocument: s.mu.RLock(); defer s.mu.RUnlock(); return s.documents[uri]
getDocument(uri) == documents[uri]

HoverGet(w) ==
    LET h == handler[w] IN
    /\ h.pc = "start" /\ h.method = "hover"
    /\ ~mu
    /\ IF getDocument(h.uri) = 0
       THEN Finish(w, <<>>)
       ELSE /\ handler' = [handler EXCEPT ![w].pc = "hov_check", ![w].doc = getDocument(h.uri)]
            /\ UNCHANGED reply
    /\ UNCHANGED <<sym, diag, req, documents, docs, mu, tasks, published, nreq, ntimeout>>

\* if doc.SymbolTable == nil { return reply(ctx, nil, nil) }
HoverCheck(w) ==
    /\ handler[w].pc = "hov_check"
    /\ IF docs[handler[w].doc].SymbolTable = <<>>
       THEN Finish(w, <<>>)
       ELSE Goto(w, "hov_word") /\ UNCHANGED reply
    /\ UNCHANGED <<sym, diag, req, documents, docs, mu, tasks, published, nreq, ntimeout>>

\* the size test on doc.Content and getWordAtPosition on doc.Lines
HoverWord(w) ==
    LET doc == docs[handler[w].doc]
        word == getWordAtPosition(doc.Lines, HoverLine, HoverCharacter)
    IN
    /\ handler[w].pc = "hov_word"
    /\ IF ByteLen(doc.Content) > MaxHoverSize \/ word = <<>>
       THEN Finish(w, <<>>)
       ELSE /\ handler' = [handler EXCEPT ![w].pc = "hov_lookup", ![w].word = word]
            /\ UNCHANGED reply
    /\ UNCHANGED <<sym, diag, req, documents, docs, mu, tasks, published, nreq, ntimeout>>

\* symbol := doc.SymbolTable.Lookup(word) and the reply built from it; the call
\* faults when doc.SymbolTable is nil by now or the table has been cleared
HoverLookupPanics(doc) == doc.SymbolTable = <<>> \/ LookupPanics(doc.SymbolTable[1])

HoverLookup(w) ==
    LET doc == docs[handler[w].doc]
        word == handler[w].word
        hit == Lookup(doc.SymbolTable[1], word)
    IN
    /\ handler[w].pc = "hov_lookup"
    /\ IF HoverLookupPanics(doc) THEN Panic(w)
       ELSE IF hit = <<>> THEN Finish(w, getKeywordHover(word))
       ELSE Finish(w, SymbolHover(hit[1]))
    /\ UNCHANGED <<sym, diag, req, documents, docs, mu, tasks, published, nreq, ntimeout>>

(***************************************************************************)
(* Next                                                                    *)
(***************************************************************************)
\* the requests of an editor whose documents hold the given texts
NewRequest(w, texts) ==
    \E uri \in URIs :
        \/ \E text \in texts : Dispatch(w, "didOpen", uri, text, 1)
        \/ \E text \in texts : Dispatch(w, "didChange", uri, text, 1)
        \/ Dispatch(w, "didClose", uri, EmptyText, 0)
        \/ Dispatch(w, "hover", uri, EmptyText, 0)

HandlerStep(w) ==
    \/ DidOpenStart(w) \/ DidOpenParsed(w) \/ DidOpenTimeout(w) \/ DidOpenStore(w)
    \/ DidChangeLock(w) \/ DidChangeClear(w) \/ DidChangeReset(w) \/ DidChangeContent(w)
    \/ DidChangeParsed(w) \/ DidChangeTimeout(w) \/ DidChangeBuild(w)
    \/ DidChangeUnlock(w)
    \/ PublishPasses(w) \/ PublishErrors(w)
    \/ DidCloseLock(w) \/ DidCloseClear(w) \/ DidCloseReset(w) \/ DidCloseDelete(w)
    \/ DidCloseNotify(w)
    \/ HoverGet(w) \/ HoverCheck(w) \/ HoverWord(w) \/ HoverLookup(w)

TaskStep(t) == TaskTokenize(t) \/ TaskParse(t)

Next ==
    \/ \E w \in Workers : NewRequest(w, Texts)
    \/ \E t \in 1..Len(tasks) : TaskStep(t)
    \/ \E w \in Workers : HandlerStep(w)

Spec == Init /\ [][Next]_vars

\* the same server under an editor that sends the faulting texts, and change
\* notifications that carry no content change
NextFault ==
    \/ \E w \in Workers : NewRequest(w, FaultTexts)
    \/ \E w \in Workers, uri \in URIs : Dispatch(w, "didChange", uri, EmptyText, 0)
    \/ \E t \in 1..Len(tasks) : TaskStep(t)
    \/ \E w \in Workers : HandlerStep(w)

SpecFault == Init /\ [][NextFault]_vars

(***************************************************************************)
(* The symbol table on its own: a table is built from an AST, looked up    *)
(* from its scopes and through SymbolTable.Lookup, and cleared.            *)
(***************************************************************************)
MaxClears == 2       \* calls of Clear() on one table
MaxScopes == 4       \* scopes of one table that are looked up

Ident(name, line) == Node("IDENTIFIER", name, <<>>, line, <<>>)
Number(line) == Node("NUMBER", <<"1">>, <<>>, line, <<>>)
Block(children) == Node("BLOCK", <<>>, <<>>, 1, children)
VarDecl(name, line) == Node("VARIABLE_DECLARATION", name, <<>>, line, <<Number(line)>>)

\* the names looked up
SymNames == {<<"a">>, <<"b">>, <<"c">>, <<"e">>, <<"f">>, <<"p">>, <<"x">>}

\* ASTs with, for each, the names it declares and the scope each is declared in
\* (scopes numbered in the order the walk opens them, 1 being the global scope)
Decl(name, scope) == [name |-> name, scope |-> scope]

PlainCases ==
    << [ast |-> Program(<<VarDecl(<<"a">>, 1)>>),
        decls |-> {Decl(<<"a">>, 1)},
        depth |-> 0, skipped |-> {}],
       [ast |-> Program(<<Node("CONSTANT_DECLARATION", <<"b">>, <<>>, 1, <<Number(1)>>)>>),
        decls |-> {Decl(<<"b">>, 1)},
        depth |-> 0, skipped |-> {}],
       [ast |-> Program(<<Node("FUNCTION", <<"f">>, S_int, 1,
                    <<Block(<<Ident(<<"a">>, 1), Ident(S_int, 1), Ident(<<"b">>, 1), Ident(S_int, 1)>>),
                      Block(<<VarDecl(<<"c">>, 2)>>)>>)>>),
        decls |-> {Decl(<<"f">>, 1), Decl(<<"a">>, 2), Decl(<<"b">>, 2), Decl(<<"c">>, 2)},
        depth |-> 0, skipped |-> {}],
       [ast |-> Program(<<Node("ENUM_DECLARATION", <<"e">>, <<>>, 1,
                    <<Ident(<<"x">>, 2), Ident(<<"c">>, 3)>>)>>),
        decls |-> {Decl(<<"e">>, 1), Decl(<<"x">>, 1), Decl(<<"c">>, 1)},
        depth |-> 0, skipped |-> {}],
       [ast |-> Program(<<Node("STRUCT_DECLARATION", <<"p">>, <<>>, 1,
                    <<Ident(<<"a">>, 2), Ident(S_int, 2), Ident(<<"b">>, 3), Ident(S_string, 3)>>)>>),
        decls |-> {Decl(<<"p">>, 1), Decl(<<"a">>, 1), Decl(<<"b">>, 1)},
        depth |-> 0, skipped |-> {}],
       [ast |-> Program(<<VarDecl(<<"x">>, 1),
                          Node("FOR_IN_ARRAY_LOOP", <<>>, <<>>, 2,
                               <<Ident(<<"c">>, 2), Ident(<<"x">>, 2), Block(<<VarDecl(<<"a">>, 3)>>)>>)>>),
        decls |-> {Decl(<<"x">>, 1), Decl(<<"c">>, 2), Decl(<<"a">>, 2)},
        depth |-> 0, skipped |-> {}],
       [ast |-> Program(<<Node("IF_STATEMENT", <<>>, <<>>, 1,
                    <<VarDecl(<<"a">>, 2),
                      Node("WHILE_LOOP", <<>>, <<>>, 3, <<VarDecl(<<"b">>, 4)>>)>>)>>),
        decls |-> {Decl(<<"a">>, 2), Decl(<<"b">>, 3)},
        depth |-> 0, skipped |-> {}],
       [ast |-> Program(<<Node("ENUM_DECLARATION", <<"e">>, <<>>, 1, <<Ident(<<"x">>, 2), NilNode>>)>>),
        decls |-> {Decl(<<"e">>, 1), Decl(<<"x">>, 1)},
        depth |-> 0, skipped |-> {}],
       [ast |-> Program(<<VarDecl(<<"x">>, 1),
                          Node("FOR_IN_DICT_LOOP", <<>>, <<>>, 2,
                               <<Ident(<<"a">>, 2), Ident(<<"b">>, 2), Ident(<<"x">>, 2),
                                 Block(<<>>)>>)>>),
        decls |-> {Decl(<<"x">>, 1), Decl(<<"a">>, 2), Decl(<<"b">>, 2)},
        depth |-> 0, skipped |-> {}],
       \* x is declared in the global scope and again in the if block of f; parents
       \* gives the parent of each scope and lines the line of each declaration
       [ast |-> Program(<<VarDecl(<<"x">>, 1),
                          Node("FUNCTION", <<"f">>, S_int, 2,
                               <<Block(<<Ident(<<"a">>, 2), Ident(S_int, 2)>>),
                                 Block(<<Node("IF_STATEMENT", <<>>, <<>>, 3, <<VarDecl(<<"x">>, 4)>>),
                                         VarDecl(<<"c">>, 5)>>)>>)>>),
        decls |-> {Decl(<<"x">>, 1), Decl(<<"f">>, 1), Decl(<<"a">>, 2), Decl(<<"c">>, 2),
                   Decl(<<"x">>, 3)},
        depth |-> 0, skipped |-> {},
        parents |-> <<0, 1, 2>>,
        lines |-> (Decl(<<"x">>, 1) :> 1) @@ (Decl(<<"f">>, 1) :> 2) @@ (Decl(<<"a">>, 2) :> 2)
                     @@ (Decl(<<"c">>, 2) :> 5) @@ (Decl(<<"x">>, 3) :> 4)],
       \* a is declared in the global scope, in a while block and as the variable
       \* of a for loop inside it; b in a for block beside them
       [ast |-> Program(<<VarDecl(<<"a">>, 1),
                          Node("WHILE_LOOP", <<>>, <<>>, 2,
                               <<VarDecl(<<"a">>, 3),
                                 Node("FOR_IN_ARRAY_LOOP", <<>>, <<>>, 4,
                                      <<Ident(<<"a">>, 4), Ident(<<"x">>, 4), Block(<<>>)>>)>>),
                          Node("FOR_LOOP", <<>>, <<>>, 6, <<VarDecl(<<"b">>, 7)>>)>>),
        decls |-> {Decl(<<"a">>, 1), Decl(<<"a">>, 2), Decl(<<"a">>, 3), Decl(<<"b">>, 4)},
        depth |-> 0, skipped |-> {},
        parents |-> <<0, 1, 2, 1>>,
        lines |-> (Decl(<<"a">>, 1) :> 1) @@ (Decl(<<"a">>, 2) :> 3) @@ (Decl(<<"a">>, 3) :> 4)
                     @@ (Decl(<<"b">>, 4) :> 7)] >>

\* an AST below the depth bound of the walk when its root is walked at depth
\* MaxWalkDepth - 1: the declarations of a and b sit on the bound, c is one deeper
DeepAst ==
    Block(<<VarDecl(<<"a">>, 1),
            Node("IF_STATEMENT", <<>>, <<>>, 2, <<VarDecl(<<"c">>, 3)>>),
            VarDecl(<<"b">>, 4)>>)

\* a block with one child more than the walk iterates
WideBlock == Block([i \in 1..(MaxWalkChildren + 1) |-> VarDecl(<<"c">>, 2)])

\* ASTs that meet the guards of walkNode: depth is the depth at which the root
\* is walked (that of an AST sitting below depth nested blocks, which the walk
\* passes through without touching the table), decls the declarations outside
\* the subtrees the guards skip, skipped the names declared only inside them
GuardCases ==
    << [ast |-> Program(<<VarDecl(<<"a">>, 1), WideBlock, VarDecl(<<"b">>, 3)>>),
        decls |-> {Decl(<<"a">>, 1), Decl(<<"b">>, 1)},
        depth |-> 0, skipped |-> {<<"c">>}],
       [ast |-> Program(<<Node("FUNCTION", <<"f">>, S_int, 1,
                               <<Block(<<Ident(<<"p">>, 1), Ident(S_int, 1)>>), WideBlock>>),
                          VarDecl(<<"b">>, 3)>>),
        decls |-> {Decl(<<"f">>, 1), Decl(<<"p">>, 2), Decl(<<"b">>, 1)},
        depth |-> 0, skipped |-> {<<"c">>}],
       [ast |-> DeepAst,
        decls |-> {Decl(<<"a">>, 1), Decl(<<"b">>, 1)},
        depth |-> MaxWalkDepth - 1, skipped |-> {<<"c">>}],
       [ast |-> DeepAst,
        decls |-> {},
        depth |-> MaxWalkDepth, skipped |-> {<<"a">>, <<"b">>, <<"c">>}],
       [ast |-> DeepAst,
        decls |-> {},
        depth |-> MaxWalkDepth + 1, skipped |-> {<<"a">>, <<"b">>, <<"c">>}] >>

\* a function without parameters and with an empty body
FuncDecl(name, returnType, line) ==
    Node("FUNCTION", name, returnType, line, <<Block(<<>>), Block(<<>>)>>)

\* a variable declared without annotation whose initializer calls a function
CallDecl(name, callee, line) ==
    Node("VARIABLE_DECLARATION", name, <<>>, line, <<Node("CALL", callee, <<>>, line, <<>>)>>)

\* x is initialized by a call of f, declared before or after x with a return
\* type (returns)
CallInitCases ==
    << [ast |-> Program(<<FuncDecl(<<"f">>, S_int, 1), CallDecl(<<"x">>, <<"f">>, 2)>>),
        decls |-> {Decl(<<"f">>, 1), Decl(<<"x">>, 1)},
        depth |-> 0, skipped |-> {}, returns |-> S_int, before |-> TRUE],
       [ast |-> Program(<<FuncDecl(<<"f">>, S_string, 1), CallDecl(<<"x">>, <<"f">>, 2)>>),
        decls |-> {Decl(<<"f">>, 1), Decl(<<"x">>, 1)},
        depth |-> 0, skipped |-> {}, returns |-> S_string, before |-> TRUE],
       [ast |-> Program(<<CallDecl(<<"x">>, <<"f">>, 1), FuncDecl(<<"f">>, S_int, 2)>>),
        decls |-> {Decl(<<"f">>, 1), Decl(<<"x">>, 1)},
        depth |-> 0, skipped |-> {}, returns |-> S_int, before |-> FALSE],
       [ast |-> Program(<<CallDecl(<<"x">>, <<"f">>, 1), FuncDecl(<<"f">>, S_string, 2)>>),
        decls |-> {Decl(<<"f">>, 1), Decl(<<"x">>, 1)},
        depth |-> 0, skipped |-> {}, returns |-> S_string, before |-> FALSE] >>

SymCases == PlainCases \o GuardCases \o CallInitCases

\* sym before BuildSymbolTable has run on the AST of case c
NewSym(c) ==
    [phase |-> "new", case |-> c, st |-> NewSymbolTable, clears |-> 0,
     scope |-> 0, name |-> <<>>, found |-> <<>>]

InitSym ==
    /\ \E c \in 1..Len(SymCases) : sym = NewSym(c)
    /\ diag = NoDiag
    /\ documents = [u \in URIs |-> 0]
    /\ docs = <<>>
    /\ published = [u \in URIs |-> <<>>]
    /\ mu = FALSE
    /\ handler = [w \in Workers |-> Idle]
    /\ tasks = <<>>
    /\ reply = [w \in Workers |-> NoReply]
    /\ nreq = 0
    /\ ntimeout = 0
    /\ req = NoReq

server == <<documents, docs, mu, handler, tasks, published, reply, nreq, ntimeout>>

\* st := BuildSymbolTable(ast); a nil dereference in the walk aborts the call
SymBuild ==
    LET built == BuildSymbolTable(SymCases[sym.case].ast) IN
    /\ sym.phase = "new"
    /\ SymCases[sym.case].depth = 0
    /\ sym' = IF built.panic
              THEN [sym EXCEPT !.phase = "build_panic"]
              ELSE [sym EXCEPT !.phase = "built", !.st = built.st]
    /\ UNCHANGED <<server, diag, req>>

\* st.walkNode(ast, depth) on a new table, as BuildSymbolTable's walk reaches
\* an AST that sits below depth nested blocks
SymWalk ==
    LET c == SymCases[sym.case]
        walked == walkNode([st |-> NewSymbolTable, panic |-> FALSE], c.ast, c.depth) IN
    /\ sym.phase = "new"
    /\ c.depth > 0
    /\ sym' = IF walked.panic
              THEN [sym EXCEPT !.phase = "build_panic"]
              ELSE [sym EXCEPT !.phase = "walked", !.st = walked.st]
    /\ UNCHANGED <<server, diag, req>>

\* scope.Lookup(name) on a scope of the built table
SymScopeLookup(s, name) ==
    /\ sym.phase = "built"
    /\ s \in 1..Len(sym.st.scopes)
    /\ sym' = [sym EXCEPT !.scope = s, !.name = name, !.found = ScopeLookup(sym.st, s, name)]
    /\ UNCHANGED <<server, diag, req>>

\* st.Lookup(name)
SymLookup(name) ==
    /\ sym.phase \in {"built", "cleared"}
    /\ sym' = IF LookupPanics(sym.st)
              THEN [sym EXCEPT !.phase = "lookup_panic", !.scope = 0, !.name = name, !.found = <<>>]
              ELSE [sym EXCEPT !.scope = 0, !.name = name, !.found = Lookup(sym.st, name)]
    /\ UNCHANGED <<server, diag, req>>

\* st.Clear()
SymClear ==
    /\ sym.phase \in {"built", "cleared"}
    /\ sym.clears < MaxClears
    /\ sym' = [sym EXCEPT !.phase = "cleared", !.st = Clear(sym.st), !.clears = @ + 1,
                          !.scope = 0, !.name = <<>>, !.found = <<>>]
    /\ UNCHANGED <<server, diag, req>>

NextSym ==
    \/ SymBuild
    \/ SymWalk
    \/ \E s \in 1..MaxScopes, name \in SymNames : SymScopeLookup(s, name)
    \/ \E name \in SymNames : SymLookup(name)
    \/ SymClear

SpecSym == InitSym /\ [][NextSym]_vars

(***************************************************************************)
(* The diagnostic passes on their own: a document is drawn from DiagCases, *)
(* its symbol table is built and the passes of publishDiagnostics are run  *)
(* on it.                                                                  *)
(***************************************************************************)
MaxLevLen == 3       \* length of the strings levenshteinDistance is applied to

ConstDecl(name, line) == Node("CONSTANT_DECLARATION", name, <<>>, line, <<Number(line)>>)
Assign(name, line) == Node("ASSIGNMENT", name, <<>>, line, <<Number(line)>>)
If(line, children) == Node("IF_STATEMENT", <<>>, <<>>, line, children)
Call(name, line) == Node("CALL", name, <<>>, line, <<>>)
Return(line, children) == Node("RETURN_STATEMENT", <<>>, <<>>, line, children)
Enum(name, line, members) ==
    Node("ENUM_DECLARATION", name, <<>>, line,
         [i \in 1..Len(members) |-> Ident(members[i], line + i)])
Func(name, returnType, line, body) ==
    Node("FUNCTION", name, returnType, line,
         <<Block(<<Ident(<<"x">>, line), Ident(S_int, line),
                   Ident(<<"y">>, line), Ident(S_int, line)>>),
           Block(body)>>)

\* documents with a constant and a later use of its name: reassigned are the
\* lines of the assignments to a constant, collided the later declarations
\* of a constant's name, first the lines of the constants' first declarations
ConstCases ==
    << [kind |-> "const", ast |-> Program(<<ConstDecl(<<"b">>, 1), Assign(<<"b">>, 2)>>),
        reassigned |-> {2}, collided |-> {}, first |-> {1}],
       [kind |-> "const",
        ast |-> Program(<<ConstDecl(<<"b">>, 1), If(2, <<Assign(<<"b">>, 3)>>)>>),
        reassigned |-> {3}, collided |-> {}, first |-> {1}],
       [kind |-> "const",
        ast |-> Program(<<If(1, <<ConstDecl(<<"b">>, 2), Assign(<<"b">>, 3)>>)>>),
        reassigned |-> {3}, collided |-> {}, first |-> {2}],
       [kind |-> "const", ast |-> Program(<<ConstDecl(<<"b">>, 1), VarDecl(<<"b">>, 2)>>),
        reassigned |-> {},
        collided |-> {[line |-> 2, code |-> "variable-const-collision"]}, first |-> {1}],
       [kind |-> "const", ast |-> Program(<<ConstDecl(<<"b">>, 1), ConstDecl(<<"b">>, 2)>>),
        reassigned |-> {},
        collided |-> {[line |-> 2, code |-> "const-redeclaration"]}, first |-> {1}],
       [kind |-> "const",
        ast |-> Program(<<ConstDecl(<<"b">>, 1),
                          If(2, <<VarDecl(<<"b">>, 3), ConstDecl(<<"b">>, 4)>>)>>),
        reassigned |-> {},
        collided |-> {[line |-> 3, code |-> "variable-const-collision"],
                      [line |-> 4, code |-> "const-redeclaration"]}, first |-> {1}],
       [kind |-> "const", ast |-> Program(<<VarDecl(<<"a">>, 1), Assign(<<"a">>, 2)>>),
        reassigned |-> {}, collided |-> {}, first |-> {}] >>

\* a document whose one block has a child more than the fan-out bound of the
\* symbol-table walk; beyond are the lines of the nodes below that block
WideCases ==
    << [kind |-> "wide",
        ast |-> Program(<<ConstDecl(<<"b">>, 1),
                          Block([i \in 1..(MaxWalkChildren + 1) |->
                                    IF i = 1 THEN Call(<<"z", "z", "z", "z", "z", "z">>, 2)
                                    ELSE IF i = 2 THEN If(2, <<Assign(<<"b">>, 2)>>)
                                    ELSE Number(2)])>>),
        beyond |-> {2}] >>

\* declared return types: the text of node.DataType, its comma-separated
\* alternatives, and whether it is neither empty, 'infer' nor 'void'
ReturnTypes ==
    << [text |-> <<>>, alts |-> {}, plain |-> FALSE],
       [text |-> S_infer, alts |-> {}, plain |-> FALSE],
       [text |-> S_void, alts |-> {}, plain |-> FALSE],
       [text |-> S_int, alts |-> {S_int}, plain |-> TRUE],
       [text |-> S_int \o <<",", " ">> \o S_string, alts |-> {S_int, S_string}, plain |-> TRUE],
       [text |-> S_int \o <<",">> \o S_generic, alts |-> {S_int, S_generic}, plain |-> TRUE],
       [text |-> S_float, alts |-> {S_float}, plain |-> TRUE],
       [text |-> S_generic, alts |-> {S_generic}, plain |-> TRUE] >>

\* a return statement of a body: its line, whether it returns a value, and the
\* type of that value where the value shows it (<<>>: not known)
Ret(line, value, type) == [line |-> line, value |-> value, type |-> type]

\* function bodies (the function is on line 1) with their return statements
ReturnBodies ==
    << [stmts |-> <<VarDecl(<<"c">>, 2)>>, returns |-> {}],
       [stmts |-> <<Return(2, <<Number(2)>>)>>, returns |-> {Ret(2, TRUE, <<S_int>>)}],
       [stmts |-> <<Return(2, <<Node("STRING", <<"x">>, <<>>, 2, <<>>)>>)>>,
        returns |-> {Ret(2, TRUE, <<S_string>>)}],
       [stmts |-> <<Return(2, <<Node("BINARY_OP", <<"p", "l", "u", "s">>, <<>>, 2,
                                     <<Ident(<<"x">>, 2), Ident(<<"y">>, 2)>>)>>)>>,
        returns |-> {Ret(2, TRUE, <<>>)}],
       [stmts |-> <<Return(2, <<>>)>>, returns |-> {Ret(2, FALSE, <<>>)}],
       [stmts |-> <<Return(2, <<Node("NUMBER", <<"1", ".", "5">>, <<>>, 2, <<>>)>>)>>,
        returns |-> {Ret(2, TRUE, <<S_float>>)}],
       [stmts |-> <<Return(2, <<Node("STRING", <<"x">>, <<>>, 2, <<>>)>>),
                    If(3, <<Return(4, <<Number(4)>>)>>)>>,
        returns |-> {Ret(2, TRUE, <<S_string>>), Ret(4, TRUE, <<S_int>>)}],
       [stmts |-> <<Return(2, <<Node("BOOLEAN", <<"t", "r", "u", "e">>, <<>>, 2, <<>>)>>)>>,
        returns |-> {Ret(2, TRUE, <<S_bool>>)}],
       [stmts |-> <<If(2, <<Return(3, <<Number(3)>>)>>)>>,
        returns |-> {Ret(3, TRUE, <<S_int>>)}] >>

\* one function f of each declared type with each body
ReturnCases ==
    [i \in 1..(Len(ReturnTypes) * Len(ReturnBodies)) |->
        LET type == ReturnTypes[((i - 1) \div Len(ReturnBodies)) + 1]
            body == ReturnBodies[((i - 1) % Len(ReturnBodies)) + 1]
        IN [kind |-> "return", ast |-> Program(<<Func(<<"f">>, type.text, 1, body.stmts)>>),
            type |-> type, returns |-> body.returns]]

\* documents with enums: enums lists, for each enum, its member names in order
\* (enum k is declared on line 10 * k and its i-th member on line 10 * k + i)
EnumMembers ==
    << << <<"x">> >>,
       << <<"x">>, <<"x">> >>,
       << <<"x">>, <<"y">>, <<"x">> >>,
       << <<"x">>, <<"x">>, <<"x">> >>,
       << <<"x">>, <<"y">>, <<"x">>, <<"y">> >> >>

EnumCase(enums) ==
    [kind |-> "enum",
     ast |-> Program([k \in 1..Len(enums) |-> Enum(<<<<"e">>, <<"f">>>>[k], 10 * k, enums[k])]),
     enums |-> enums]

EnumCases ==
    [i \in 1..Len(EnumMembers) |-> EnumCase(<<EnumMembers[i]>>)]
    \o << EnumCase(<< << <<"x">>, <<"y">> >>, << <<"x">> >> >>),
          EnumCase(<< << <<"x">>, <<"x">> >>, << <<"x">>, <<"y">>, <<"y">> >> >>) >>

\* function names declared and called in the documents with calls
N_ab == <<"a", "b">>
N_ac == <<"a", "c">>
N_ad == <<"a", "d">>
N_prnt == <<"p", "r", "n", "t">>
N_print == <<"p", "r", "i", "n", "t">>
N_zzzzzz == <<"z", "z", "z", "z", "z", "z">>
N_long == <<"a", "b", "c", "d", "e", "f", "g", "h", "i", "j", "k", "l">>
N_near == <<"a", "b", "c", "d", "e", "f", "g", "h", "m", "n", "o", "p">>
N_far == <<"a", "b", "c", "d", "e", "f", "g", "z", "i", "j", "k", "l">>
N_ten == <<"a", "b", "c", "d", "e", "f", "g", "h", "i", "j">>
N_tenfar == <<"a", "b", "c", "d", "e", "f", "w", "x", "y", "z">>

\* the functions a document declares, in source order
CallFuncs == << <<>>, <<N_ab>>, <<N_ab, N_ac>>, <<N_near, N_tenfar>> >>

\* the names it calls
CallNames == <<N_ab, N_ad, N_prnt, N_print, N_zzzzzz, N_long, N_far, N_ten>>

\* declarations that rebind a name at top level after the functions
Rebinds(name) ==
    << <<>>, <<VarDecl(name, 8)>>, <<ConstDecl(name, 8)>>, <<Enum(<<"e">>, 7, <<name>>)>> >>

\* a document that declares funcs (function k on line k), then rebound, then
\* calls name on line 9
CallCase(funcs, rebound, name) ==
    [kind |-> "call",
     ast |-> Program([k \in 1..Len(funcs) |-> Func(funcs[k], <<>>, k, <<>>)]
                     \o rebound \o <<Call(name, 9)>>),
     funcs |-> {funcs[k] : k \in 1..Len(funcs)}, name |-> name]

CallCases ==
    [i \in 1..(Len(CallFuncs) * Len(CallNames)) |->
        CallCase(CallFuncs[((i - 1) \div Len(CallNames)) + 1], <<>>,
                 CallNames[((i - 1) % Len(CallNames)) + 1])]
    \o [i \in 1..Len(Rebinds(N_ab)) |-> CallCase(<<N_ab>>, Rebinds(N_ab)[i], N_ab)]

\* a parameter as collectFunctions reads it: one IDENTIFIER with its type in
\* DataType and its default value, if any, in DefaultValue
Param(name, type, default, line) ==
    [Node("IDENTIFIER", name, type, line, <<>>) EXCEPT !.DefaultValue = default]

ParamNames == << <<"p">>, <<"q">>, <<"r">> >>

\* a function with required parameters followed by defaults parameters with a default
FuncParams(name, line, required, defaults) ==
    Node("FUNCTION", name, <<>>, line,
         <<Block([i \in 1..(required + defaults) |->
                    Param(ParamNames[i], S_int, IF i > required THEN <<Number(line)>> ELSE <<>>,
                          line)]),
           Block(<<>>)>>)

CallArgs(name, line, argc) == Node("CALL", name, <<>>, line, [i \in 1..argc |-> Number(line)])

ArgSignatures ==
    << [required |-> 0, defaults |-> 0], [required |-> 1, defaults |-> 0],
       [required |-> 2, defaults |-> 0], [required |-> 1, defaults |-> 1],
       [required |-> 0, defaults |-> 2], [required |-> 2, defaults |-> 1] >>

ArgCounts == <<0, 1, 2, 3, 4, 11>>

\* documents that declare f on line 1 and call it on line 9
ArgCases ==
    [i \in 1..(Len(ArgSignatures) * Len(ArgCounts)) |->
        LET sig == ArgSignatures[((i - 1) \div Len(ArgCounts)) + 1]
            argc == ArgCounts[((i - 1) % Len(ArgCounts)) + 1]
        IN [kind |-> "args",
            ast |-> Program(<<FuncParams(<<"f">>, 1, sig.required, sig.defaults),
                              CallArgs(<<"f">>, 9, argc)>>),
            min |-> sig.required, max |-> sig.required + sig.defaults, argc |-> argc]]

\* annotations of declarations
Annotations == <<S_int, S_float, S_string, S_generic>>

\* initializers on line 1 with the type each shows (<<>>: not known)
Initializers ==
    << [node |-> Number(1), type |-> <<S_int>>],
       [node |-> Node("NUMBER", <<"1", ".", "5">>, <<>>, 1, <<>>), type |-> <<S_float>>],
       [node |-> Node("STRING", <<"x">>, <<>>, 1, <<>>), type |-> <<S_string>>],
       [node |-> Ident(<<"a">>, 1), type |-> <<>>],
       [node |-> Call(<<"f">>, 1), type |-> <<>>],
       [node |-> Node("BINARY_OP", <<"+">>, <<>>, 1,
                      <<Number(1), Node("NUMBER", <<"1", ".", "5">>, <<>>, 1, <<>>)>>),
        type |-> <<S_float>>],
       [node |-> Node("BINARY_OP", <<"<">>, <<>>, 1, <<Number(1), Number(1)>>),
        type |-> <<S_bool>>],
       [node |-> Node("ARRAY_LITERAL", <<>>, <<>>, 1, <<Number(1)>>), type |-> <<S_array>>] >>

\* the node kinds of declarations with a type annotation and an initializer
DeclKinds == <<"VARIABLE_DECLARATION", "ASSIGNMENT", "CONSTANT_DECLARATION">>

\* documents with one annotated declaration of x on line 1
TypeCases ==
    [i \in 1..(Len(DeclKinds) * Len(Annotations) * Len(Initializers)) |->
        LET init == Initializers[((i - 1) % Len(Initializers)) + 1]
            j == (i - 1) \div Len(Initializers)
            annotation == Annotations[(j % Len(Annotations)) + 1]
            declKind == DeclKinds[(j \div Len(Annotations)) + 1]
        IN [kind |-> "type",
            ast |-> Program(<<Node(declKind, <<"x">>, annotation, 1, <<init.node>>)>>),
            declKind |-> declKind, annotation |-> annotation, type |-> init.type]]

DiagCases ==
    ConstCases \o WideCases \o ReturnCases \o EnumCases \o CallCases \o ArgCases \o TypeCases

\* doc.Lines: no text (every end column falls back) or two lines of text
DiagLines == {<<>>, <<Text(<<"a", "b", "c">>, 0), Text(<<"a", "b", "c", "d", "e">>, 0)>>}

\* diag before the symbol table of case c is built
NewDiag(c, lines) ==
    [phase |-> "new", case |-> c, lines |-> lines, st |-> NewSymbolTable,
     pass |-> "", order |-> <<>>, out |-> <<>>]

InitDiag ==
    /\ \E c \in 1..Len(DiagCases), lines \in DiagLines : diag = NewDiag(c, lines)
    /\ sym = NoSym
    /\ documents = [u \in URIs |-> 0]
    /\ docs = <<>>
    /\ published = [u \in URIs |-> <<>>]
    /\ mu = FALSE
    /\ handler = [w \in Workers |-> Idle]
    /\ tasks = <<>>
    /\ reply = [w \in Workers |-> NoReply]
    /\ nreq = 0
    /\ ntimeout = 0
    /\ req = NoReq

\* the document the passes read
DiagDoc == [AST |-> DiagCases[diag.case].ast, Lines |-> diag.lines]

\* doc.SymbolTable = BuildSymbolTable(doc.AST)
DiagBuild ==
    LET built == BuildSymbolTable(DiagCases[diag.case].ast) IN
    /\ diag.phase = "new"
    /\ diag' = IF built.panic
               THEN [diag EXCEPT !.phase = "build_panic"]
               ELSE [diag EXCEPT !.phase = "built", !.st = built.st]
    /\ UNCHANGED <<server, sym, req>>

\* the outcome of one pass: its diagnostics, or the fault that ends it
Checked(pass, order, result) ==
    /\ diag' = IF result.panic
               THEN [diag EXCEPT !.phase = "pass_panic", !.pass = pass, !.order = order,
                                 !.out = <<>>]
               ELSE [diag EXCEPT !.phase = "checked", !.pass = pass, !.order = order,
                                 !.out = result.diags]
    /\ UNCHANGED <<server, sym, req>>

DiagConst ==
    /\ diag.phase \in {"built", "checked"}
    /\ Checked("const", <<>>, checkConstReassignment(DiagDoc, diag.st))

DiagReturns ==
    /\ diag.phase \in {"built", "checked"}
    /\ Checked("return", <<>>, [panic |-> FALSE, diags |-> checkReturnTypeViolations(DiagDoc)])

DiagEnums ==
    /\ diag.phase \in {"built", "checked"}
    /\ Checked("enum", <<>>, checkEnumDuplicates(DiagDoc))

DiagArgCounts ==
    /\ diag.phase \in {"built", "checked"}
    /\ Checked("args", <<>>, [panic |-> collectFunctionsPanics(DiagDoc.AST),
                              diags |-> checkFunctionCallArgumentCounts(DiagDoc)])

DiagTypes ==
    /\ diag.phase \in {"built", "checked"}
    /\ Checked("type", <<>>, [panic |-> FALSE, diags |-> checkTypeMismatches(DiagDoc)])

\* checkUndefinedFunctions, the range over GlobalScope.Symbols meeting the
\* function symbols in any order
DiagUndefined ==
    /\ diag.phase \in {"built", "checked"}
    /\ \E order \in FunctionOrders(diag.st) :
          Checked("undefined", order, checkUndefinedFunctions(DiagDoc, diag.st, order))

NextDiag ==
    \/ DiagBuild
    \/ DiagConst
    \/ DiagReturns
    \/ DiagEnums
    \/ DiagUndefined
    \/ DiagArgCounts
    \/ DiagTypes

SpecDiag == InitDiag /\ [][NextDiag]_vars

(***************************************************************************)
(* levenshteinDistance on its own: two strings are drawn and measured in   *)
(* both directions.                                                        *)
(***************************************************************************)
LevChars == {"a", "b"}

\* the strings of up to MaxLevLen characters
LevWords == UNION {[1..n -> LevChars] : n \in 0..MaxLevLen}

InitLev ==
    /\ \E a \in LevWords, b \in LevWords :
          diag = [phase |-> "strings", a |-> a, b |-> b, fwd |-> 0, back |-> 0]
    /\ sym = NoSym
    /\ documents = [u \in URIs |-> 0]
    /\ docs = <<>>
    /\ published = [u \in URIs |-> <<>>]
    /\ mu = FALSE
    /\ handler = [w \in Workers |-> Idle]
    /\ tasks = <<>>
    /\ reply = [w \in Workers |-> NoReply]
    /\ nreq = 0
    /\ ntimeout = 0
    /\ req = NoReq

\* levenshteinDistance(a, b) and levenshteinDistance(b, a)
LevMeasure ==
    /\ diag.phase = "strings"
    /\ diag' = [diag EXCEPT !.phase = "measured",
                            !.fwd = levenshteinDistance(diag.a, diag.b),
                            !.back = levenshteinDistance(diag.b, diag.a)]
    /\ UNCHANGED <<server, sym, req>>

NextLev == LevMeasure

SpecLev == InitLev /\ [][NextLev]_vars

(***************************************************************************)
(* Completion on its own: handleCompletion answers a request at a cursor   *)
(* of a document.                                                          *)
(***************************************************************************)
StringLit(line) == Node("STRING", <<"x">>, <<>>, line, <<>>)

Var(name, line, value) == Node("VARIABLE_DECLARATION", name, <<>>, line, <<value>>)

\* the declarations of the document: the string s, the array a, the dict d,
\* the int n, the constant k, the function f with its local string t, the
\* struct p with the field x, the variable q of type p and the enum e
CompAst ==
    Program(<<Var(<<"s">>, 1, StringLit(1)),
              Var(<<"a">>, 2, Node("ARRAY_LITERAL", <<>>, <<>>, 2, <<>>)),
              Var(<<"d">>, 3, Node("DICT_LITERAL", <<>>, <<>>, 3, <<>>)),
              Var(<<"n">>, 4, Number(4)),
              Node("CONSTANT_DECLARATION", <<"k">>, <<>>, 5, <<StringLit(5)>>),
              Node("FUNCTION", <<"f">>, S_int, 6,
                   <<Block(<<>>), Block(<<Var(<<"t">>, 7, StringLit(7))>>)>>),
              Node("STRUCT_DECLARATION", <<"p">>, <<>>, 8, <<Ident(<<"x">>, 8), Ident(S_int, 8)>>),
              Node("VARIABLE_DECLARATION", <<"q">>, <<"p">>, 9, <<>>),
              Node("ENUM_DECLARATION", <<"e">>, <<>>, 10, <<Ident(<<"v">>, 10)>>)>>)

\* the line the cursor is on and the cursor's column, with what the editor
\* shows there: recv is <<type>> when a declared variable of type string,
\* array or dict stands before the dot, prefix the identifier typed so far,
\* dot whether a dot stands before it, resolvable whether what stands before
\* the dot is a complete literal or a variable with members
CompCases ==
    <<
       [line |-> <<"s", ".">>, character |-> 2, recv |-> <<S_string>>,
        prefix |-> <<>>, dot |-> TRUE, resolvable |-> TRUE],
       [line |-> <<"s", ".", "l", "e">>, character |-> 4, recv |-> <<S_string>>,
        prefix |-> <<"l", "e">>, dot |-> TRUE, resolvable |-> TRUE],
       [line |-> <<"s", ".", "z", "z">>, character |-> 4, recv |-> <<S_string>>,
        prefix |-> <<"z", "z">>, dot |-> TRUE, resolvable |-> TRUE],
       [line |-> <<"s", ".", "l", "e">>, character |-> 2, recv |-> <<S_string>>,
        prefix |-> <<>>, dot |-> TRUE, resolvable |-> TRUE],
       [line |-> <<"a", ".">>, character |-> 2, recv |-> <<S_array>>,
        prefix |-> <<>>, dot |-> TRUE, resolvable |-> TRUE],
       [line |-> <<"a", ".", "s">>, character |-> 3, recv |-> <<S_array>>,
        prefix |-> <<"s">>, dot |-> TRUE, resolvable |-> TRUE],
       [line |-> <<"d", ".">>, character |-> 2, recv |-> <<S_dict>>,
        prefix |-> <<>>, dot |-> TRUE, resolvable |-> TRUE],
       [line |-> <<"d", ".", "s">>, character |-> 3, recv |-> <<S_dict>>,
        prefix |-> <<"s">>, dot |-> TRUE, resolvable |-> TRUE],
       [line |-> <<"t", ".">>, character |-> 2, recv |-> <<S_string>>,
        prefix |-> <<>>, dot |-> TRUE, resolvable |-> TRUE],
       [line |-> <<"t", ".", "l", "e">>, character |-> 4, recv |-> <<S_string>>,
        prefix |-> <<"l", "e">>, dot |-> TRUE, resolvable |-> TRUE],
       [line |-> <<"n", ".">>, character |-> 2, recv |-> <<>>,
        prefix |-> <<>>, dot |-> TRUE, resolvable |-> FALSE],
       [line |-> <<"k", ".">>, character |-> 2, recv |-> <<>>,
        prefix |-> <<>>, dot |-> TRUE, resolvable |-> FALSE],
       [line |-> <<"z", ".">>, character |-> 2, recv |-> <<>>,
        prefix |-> <<>>, dot |-> TRUE, resolvable |-> FALSE],
       [line |-> <<"f", ".">>, character |-> 2, recv |-> <<>>,
        prefix |-> <<>>, dot |-> TRUE, resolvable |-> FALSE],
       [line |-> <<"e", ".">>, character |-> 2, recv |-> <<>>,
        prefix |-> <<>>, dot |-> TRUE, resolvable |-> FALSE],
       [line |-> <<"q", ".">>, character |-> 2, recv |-> <<>>,
        prefix |-> <<>>, dot |-> TRUE, resolvable |-> TRUE],
       [line |-> <<"\"", "x", "\"", ".">>, character |-> 4, recv |-> <<>>,
        prefix |-> <<>>, dot |-> TRUE, resolvable |-> TRUE],
       [line |-> <<"\"", "x", "\"", ".", "u", "p">>, character |-> 6, recv |-> <<>>,
        prefix |-> <<"u", "p">>, dot |-> TRUE, resolvable |-> TRUE],
       [line |-> <<"x", "\"", ".">>, character |-> 3, recv |-> <<>>,
        prefix |-> <<>>, dot |-> TRUE, resolvable |-> FALSE],
       [line |-> <<"[", "1", "]", ".">>, character |-> 4, recv |-> <<>>,
        prefix |-> <<>>, dot |-> TRUE, resolvable |-> TRUE],
       [line |-> <<"1", "]", ".">>, character |-> 3, recv |-> <<>>,
        prefix |-> <<>>, dot |-> TRUE, resolvable |-> FALSE],
       [line |-> <<"{", "}", ".">>, character |-> 3, recv |-> <<>>,
        prefix |-> <<>>, dot |-> TRUE, resolvable |-> TRUE],
       [line |-> <<"}", ".">>, character |-> 2, recv |-> <<>>,
        prefix |-> <<>>, dot |-> TRUE, resolvable |-> FALSE],
       [line |-> <<")", ".">>, character |-> 2, recv |-> <<>>,
        prefix |-> <<>>, dot |-> TRUE, resolvable |-> FALSE],
       [line |-> <<")", ".", "s">>, character |-> 3, recv |-> <<>>,
        prefix |-> <<"s">>, dot |-> TRUE, resolvable |-> FALSE],
       [line |-> <<"s">>, character |-> 1, recv |-> <<>>,
        prefix |-> <<"s">>, dot |-> FALSE, resolvable |-> FALSE],
       [line |-> <<>>, character |-> 0, recv |-> <<>>,
        prefix |-> <<>>, dot |-> FALSE, resolvable |-> FALSE],
       [line |-> <<"n", " ">>, character |-> 2, recv |-> <<>>,
        prefix |-> <<>>, dot |-> FALSE, resolvable |-> FALSE] >>

\* the document the request reads: the declarations of CompAst on the lines of
\* a text whose last line is the line of the cursor
CompLine == 10

CompDoc(c) ==
    [Lines |-> [i \in 1..(CompLine + 1) |->
                   IF i = CompLine + 1 THEN Text(CompCases[c].line, 0) ELSE Text(<<"x">>, 0)],
     AST |-> CompAst]

NewComp(c) == [phase |-> "new", case |-> c, panic |-> FALSE, items |-> <<>>]

InitComp ==
    /\ \E c \in 1..Len(CompCases) : req = NewComp(c)
    /\ sym = NoSym
    /\ diag = NoDiag
    /\ documents = [u \in URIs |-> 0]
    /\ docs = <<>>
    /\ published = [u \in URIs |-> <<>>]
    /\ mu = FALSE
    /\ handler = [w \in Workers |-> Idle]
    /\ tasks = <<>>
    /\ reply = [w \in Workers |-> NoReply]
    /\ nreq = 0
    /\ ntimeout = 0

\* handleCompletion at the cursor of the case, the ranges over the symbol maps
\* meeting the symbols in any order
Complete ==
    /\ req.phase = "new"
    /\ \E order \in CompletionOrders(BuildSymbolTable(CompAst).st) :
          LET c == CompCases[req.case]
              result == handleCompletion(<<CompDoc(req.case)>>, CompLine, c.character, order)
          IN req' = [req EXCEPT !.phase = "completed", !.panic = result.panic,
                                !.items = result.items]
    /\ UNCHANGED <<server, sym, diag>>

\* handleCompletion for a URI without document, or below the last line
CompleteNowhere(open) ==
    /\ req.phase = "new"
    /\ \E order \in CompletionOrders(BuildSymbolTable(CompAst).st) :
          LET result == handleCompletion(IF open THEN <<CompDoc(req.case)>> ELSE <<>>,
                                         CompLine + 1, 0, order)
          IN req' = [req EXCEPT !.phase = "nowhere", !.panic = result.panic,
                                !.items = result.items]
    /\ UNCHANGED <<server, sym, diag>>

NextComp ==
    \/ Complete
    \/ \E open \in BOOLEAN : CompleteNowhere(open)

SpecComp == InitComp /\ [][NextComp]_vars

(***************************************************************************)
(* Code actions on their own: handleCodeAction starts its goroutine and    *)
(* waits for it or for the deadline, whichever comes first.                *)
(***************************************************************************)
M_do ==
    <<"e", "x", "p", "e", "c", "t", "e", "d", " ", "'", "d", "o", "'">>
M_four ==
    <<"m", "i", "s", "s", "i", "n", "g", " ", "'", "d", "o", "'", ",", " ", "m", "i", "s",
      "s", "i", "n", "g", " ", "'", "e", "n", "d", "'", ",", " ", "m", "i", "s", "s", "i",
      "n", "g", " ", "'", "t", "h", "e", "n", "'", ",", " ", "m", "i", "s", "s", "i", "n",
      "g", " ", "a", "s", "s", "i", "g", "n", "m", "e", "n", "t">>
M_none ==
    <<"u", "n", "e", "x", "p", "e", "c", "t", "e", "d", " ", "t", "o", "k", "e", "n">>

RequestDiagnostic(message, code, line) == [Message |-> message, Code |-> code, Line |-> line]

\* n diagnostics with one message, on the lines 0..n-1
Repeated(message, n) == [i \in 1..n |-> RequestDiagnostic(message, "", i - 1)]

\* params.Context.Diagnostics of the requests
DiagSeqs ==
    << <<>>,
       Repeated(M_do, 7),
       Repeated(M_none, 7),
       <<RequestDiagnostic(M_four, "program-position", 0), RequestDiagnostic(M_four, "", 1),
         RequestDiagnostic(M_four, "program-position", 2), RequestDiagnostic(M_do, "", 3)>>,
       Repeated(M_do, 5) \o <<RequestDiagnostic(M_four, "program-position", 5),
                             RequestDiagnostic(M_four, "", 6)>>,
       <<RequestDiagnostic(M_four, "program-position", 0),
         RequestDiagnostic(M_four, "program-position", 1), RequestDiagnostic(M_do, "", 2)>>,
       <<RequestDiagnostic(M_four, "", 0)>> \o Repeated(M_do, 3),
       <<RequestDiagnostic(M_four, "program-position", 0)>> >>

\* the lines of the document: the program declaration, a line with every
\* refactoring, and lines with one refactoring of 5001, 5000 and 10001 bytes
ActionLines ==
    << Text(<<"p", "r", "o", "g", "r", "a", "m", " ", "p">>, 0),
       Text(<<"f", "u", "n", "c", " ", "f", " ", "i", "s", " ", "a", " ", "p", "l", "u", "s",
            " ", "b", " ", "m", "i", "n", "u", "s", " ", "c", " ", "t", "i", "m", "e", "s",
            " ", "d">>, 0),
       Text(T_plus, MaxContextLine + 1 - Len(T_plus)),
       Text(T_plus, MaxContextLine - Len(T_plus)),
       Text(T_plus, MaxLineLen + 1 - Len(T_plus)) >>

ActionAst == Program(<<Node("PROGRAM_DECLARATION", <<"p">>, <<>>, 1, <<>>)>>)

\* what s.getDocument returns: no document, a document without symbol table,
\* a document without content, or a parsed document
DocKinds == {"closed", "untabled", "empty", "parsed"}

ActionDoc(kind) ==
    IF kind = "closed" THEN <<>>
    ELSE << [Content |-> IF kind = "empty" THEN EmptyText ELSE Text(<<"p">>, 0),
             Lines |-> IF kind = "empty" THEN Split(EmptyText) ELSE ActionLines,
             AST |-> IF kind = "empty" THEN Program(<<>>) ELSE ActionAst,
             SymbolTable |-> IF kind = "untabled" THEN <<>>
                             ELSE <<BuildSymbolTable(ActionAst).st>>] >>

NewAction(diags, line, doc, decodable) ==
    [phase |-> "start", worker |-> "none", done |-> FALSE, fired |-> FALSE,
     handleErr |-> FALSE, result |-> <<>>, reply |-> <<>>,
     diags |-> diags, line |-> line, doc |-> doc, decodable |-> decodable]

InitAction ==
    /\ \E diags \in 1..Len(DiagSeqs), line \in 0..Len(ActionLines), doc \in DocKinds,
          decodable \in BOOLEAN :
          req = NewAction(diags, line, doc, decodable)
    /\ sym = NoSym
    /\ diag = NoDiag
    /\ documents = [u \in URIs |-> 0]
    /\ docs = <<>>
    /\ published = [u \in URIs |-> <<>>]
    /\ mu = FALSE
    /\ handler = [w \in Workers |-> Idle]
    /\ tasks = <<>>
    /\ reply = [w \in Workers |-> NoReply]
    /\ nreq = 0
    /\ ntimeout = 0

\* handleCodeAction up to its select: the deadline is armed, the goroutine started
ActionStart ==
    /\ req.phase = "start"
    /\ req' = [req EXCEPT !.phase = "select", !.worker = "decode"]
    /\ UNCHANGED <<server, sym, diag>>

\* the goroutine decodes the parameters; on an error it sets handleErr and
\* closes done
ActionDecode ==
    /\ req.worker = "decode"
    /\ req' = IF req.decodable
              THEN [req EXCEPT !.worker = "generate"]
              ELSE [req EXCEPT !.worker = "closed", !.handleErr = TRUE, !.done = TRUE]
    /\ UNCHANGED <<server, sym, diag>>

\* the goroutine fetches the document, generates the actions, assigns result
\* and closes done
ActionGenerate ==
    /\ req.worker = "generate"
    /\ req' = [req EXCEPT !.worker = "closed", !.done = TRUE,
                          !.result = codeActions(ActionDoc(req.doc), DiagSeqs[req.diags],
                                                 req.line)]
    /\ UNCHANGED <<server, sym, diag>>

\* the goroutine panics while generating: the deferred recover sets handleErr
\* and closes done
ActionPanic ==
    /\ req.worker = "generate"
    /\ req' = [req EXCEPT !.worker = "closed", !.handleErr = TRUE, !.done = TRUE]
    /\ UNCHANGED <<server, sym, diag>>

\* the two seconds of timeoutCtx elapse
ActionDeadline ==
    /\ req.phase = "select"
    /\ ~req.fired
    /\ req' = [req EXCEPT !.fired = TRUE]
    /\ UNCHANGED <<server, sym, diag>>

ActionReply(items, how) == [items |-> items, error |-> "", how |-> how]

\* case <-done
ActionSelectDone ==
    /\ req.phase = "select"
    /\ req.done
    /\ req' = [req EXCEPT !.phase = "replied",
                          !.reply = <<ActionReply(IF req.handleErr THEN <<>> ELSE req.result,
                                                  IF req.handleErr THEN "error" ELSE "done")>>]
    /\ UNCHANGED <<server, sym, diag>>

\* case <-timeoutCtx.Done()
ActionSelectTimeout ==
    /\ req.phase = "select"
    /\ timeoutReady(req.fired)
    /\ req' = [req EXCEPT !.phase = "replied", !.reply = <<ActionReply(<<>>, "timeout")>>]
    /\ UNCHANGED <<server, sym, diag>>

NextAction ==
    \/ ActionStart
    \/ ActionDecode
    \/ ActionGenerate
    \/ ActionPanic
    \/ ActionDeadline
    \/ ActionSelectDone
    \/ ActionSelectTimeout

SpecAction == InitAction /\ [][NextAction]_vars

\* the handler runs, and the deadline elapses, whatever the goroutine does: the
\* goroutine itself may stop anywhere for ever
SpecActionFair ==
    /\ SpecAction
    /\ WF_vars(ActionStart)
    /\ WF_vars(ActionDeadline)
    /\ WF_vars(ActionSelectDone \/ ActionSelectTimeout)

(***************************************************************************)
(* The conversions of 1-based lines and columns on their own: a parse      *)
(* error, a symbol or an AST node with a line and a column is converted to *)
(* the position sent to the client.                                        *)
(***************************************************************************)
MaxPosLine == 5      \* lines of parse errors, symbols and nodes: -MaxPosLine..MaxPosLine
MaxPosColumn == 3    \* columns of parse errors: -MaxPosColumn..MaxPosColumn

NewPos(line, column) ==
    [phase |-> "new", line |-> line, column |-> column, outLine |-> ToUint32(0),
     outCharacter |-> ToUint32(0)]

InitPos ==
    /\ \E line \in (-MaxPosLine)..MaxPosLine, column \in (-MaxPosColumn)..MaxPosColumn :
          req = NewPos(line, column)
    /\ sym = NoSym
    /\ diag = NoDiag
    /\ documents = [u \in URIs |-> 0]
    /\ docs = <<>>
    /\ published = [u \in URIs |-> <<>>]
    /\ mu = FALSE
    /\ handler = [w \in Workers |-> Idle]
    /\ tasks = <<>>
    /\ reply = [w \in Workers |-> NoReply]
    /\ nreq = 0
    /\ ntimeout = 0

Converted(phase, line, character) ==
    /\ req.phase = "new"
    /\ req' = [req EXCEPT !.phase = phase, !.outLine = line, !.outCharacter = character]
    /\ UNCHANGED <<server, sym, diag>>

\* publishDiagnostics converts a parse error
PosParseError ==
    LET d == ParseErrorDiagnostic(ParseError(req.line, req.column, "")) IN
    /\ req.phase = "new"
    /\ Converted("parse_error", d.Line, d.Character)

\* a diagnostic pass reports on an AST node
PosNode ==
    LET d == NodeDiagnostic(<<>>, Node("CALL", <<"a">>, <<>>, req.line, <<>>), 10,
                            Msg("", <<>>), "")
    IN
    /\ req.phase = "new"
    /\ Converted("node", d.Line, d.Character)

\* handleDefinition replies with the location of a symbol (symbols are
\* registered with column 0)
PosDefinition ==
    LET location == definitionLocation(Symbol(<<"a">>, "Variable", <<>>, req.line)) IN
    /\ req.phase = "new"
    /\ req.column = 0
    /\ Converted("definition", location.Line, location.Character)

\* handleDocumentSymbol converts a symbol
PosOutline ==
    LET docSymbol == symbolToDocumentSymbol(Symbol(<<"a">>, "Variable", <<>>, req.line)) IN
    /\ req.phase = "new"
    /\ req.column = 0
    /\ Converted("outline", docSymbol.Line, docSymbol.Character)

NextPos ==
    \/ PosParseError
    \/ PosNode
    \/ PosDefinition
    \/ PosOutline

SpecPos == InitPos /\ [][NextPos]_vars

(***************************************************************************)
(* Properties                                                              *)
(***************************************************************************)
\* what one completed pipeline run on a content leaves in the Document: the result
\* of the parse, the state written after a parser panic, or the timeout state
RunOutcomes(content) ==
    LET tokens == Tokenize(content)
        parsed == ParseLint(tokens)
    IN {[AST |-> NilNode, Errors |-> TimeoutErrors]} \cup
       (IF TokenizePanics(content) \/ ParseLintPanics(tokens)
        THEN {[AST |-> NilNode, Errors |-> PanicErrors]}
        ELSE {[AST |-> parsed.AST, Errors |-> parsed.Errors]})

FromOneRun(doc) ==
    /\ doc.Lines = Split(doc.Content)
    /\ doc.SymbolTable # <<>>
    /\ \E o \in RunOutcomes(doc.Content) :
          /\ doc.AST = o.AST
          /\ doc.Errors = o.Errors
          /\ ~BuildSymbolTable(o.AST).panic
          /\ doc.SymbolTable[1] = BuildSymbolTable(o.AST).st

\* a hover handler that holds a Document reference it fetched and reads it
Reading(w) ==
    handler[w].method = "hover" /\ handler[w].pc \in {"hov_check", "hov_word", "hov_lookup"}

\* C1: whenever a reader reads a Document reference it fetched from the store, the
\* Document's Content, Lines, AST, parse errors and SymbolTable all come from one
\* completed pipeline run (never new Content with a nil or cleared table).
C1_ReaderSeesOneRun ==
    \A w \in Workers : Reading(w) => FromOneRun(docs[handler[w].doc])

\* a parse task no handler waits for any more although it has not finished
Abandoned(t) ==
    /\ tasks[t].pc # "done"
    /\ ~\E w \in Workers : handler[w].pc \in {"open_wait", "chg_wait"} /\ handler[w].task = t

\* C2: a parse task abandoned at the deadline never changes the Document
\* afterwards: no step of it modifies the Document's Tokens, AST or Errors.
C2_AbandonedTaskIsInert ==
    [][\A t \in 1..Len(tasks) :
          (Abandoned(t) /\ tasks'[t] # tasks[t])
          => LET d == tasks[t].doc
             IN /\ docs'[d].Tokens = docs[d].Tokens
                /\ docs'[d].AST = docs[d].AST
                /\ docs'[d].Errors = docs[d].Errors]_vars

\* a table whose Lookup answers none for every name
AnswersNone(table) ==
    /\ table # <<>>
    /\ ~LookupPanics(table[1])
    /\ \A name \in SymNames : Lookup(table[1], name) = <<>>

\* C3: when the parse of an opened or changed document missed the deadline, the
\* Document has AST = nil, Tokens = nil, exactly the one timeout error and a table
\* that answers none to every Lookup, and the diagnostics published for the
\* notification are exactly the one timeout diagnostic.
C3_TimeoutState ==
    [][\A w \in Workers :
          (handler[w].timeout /\ handler[w].pc = "pub_errors" /\ handler'[w].pc = "idle")
          => LET doc == docs[handler[w].doc]
             IN /\ IsNil(doc.AST)
                /\ doc.Tokens = <<>>
                /\ doc.Errors = TimeoutErrors
                /\ AnswersNone(doc.SymbolTable)
                /\ published'[handler[w].uri] = <<ParseErrorDiagnostics(TimeoutErrors)>>]_vars

\* C4: the exclusive store lock is not held while a change is tokenized, parsed
\* or its table built, so that while the pipeline of a change is running a query
\* that has arrived can fetch its Document reference.
C4_LockOnlyForMapUpdate ==
    \A w \in Workers :
        handler[w].pc \in {"chg_wait", "chg_build"}
        => /\ ~mu
           /\ \A v \in Workers :
                 (handler[v].method = "hover" /\ handler[v].pc = "start") => ENABLED HoverGet(v)

\* the handler positions between s.mu.Lock() and s.mu.Unlock()
LockedPcs == {"chg_clear", "chg_reset", "chg_content", "chg_wait", "chg_build", "chg_unlock",
              "cls_clear", "cls_reset", "cls_delete"}

\* C5: after a handler panic has been answered with an error reply the store
\* stays usable: no store lock remains held, that is, the lock is held only
\* while a handler is still running between its Lock and its Unlock.
C5_NoLockLeftBehind ==
    mu => \E w \in Workers : handler[w].pc \in LockedPcs

\* tokenizing, parsing or building the table of this text panics
PipelineFaults(text) ==
    \/ TokenizePanics(text)
    \/ ParseLintPanics(Tokenize(text))
    \/ BuildSymbolTable(ParseLint(Tokenize(text)).AST).panic

\* a didOpen / didChange handler past its size and presence tests, on a
\* notification that carries a text
InPipeline(w) ==
    /\ handler[w].method \in {"didOpen", "didChange"}
    /\ handler[w].pc \notin {"idle", "start"}
    /\ handler[w].changes > 0

\* C6: when tokenizing, parsing or building the table panics during didOpen or
\* didChange, the handler ends with a Document that has AST = nil, Tokens = nil,
\* an empty table and the one synthetic error at 1:1, with that diagnostic
\* published and the notification answered without an error.
C6_PipelinePanicContained ==
    [][\A w \in Workers :
          (/\ InPipeline(w)
           /\ ~handler[w].timeout
           /\ PipelineFaults(handler[w].text)
           /\ handler'[w].pc = "idle")
          => LET doc == docs'[handler[w].doc]
             IN /\ reply'[w].kind = "ok"
                /\ IsNil(doc.AST)
                /\ doc.Tokens = <<>>
                /\ doc.Errors = PanicErrors
                /\ doc.SymbolTable = <<NewSymbolTable>>
                /\ published'[handler[w].uri] = <<ParseErrorDiagnostics(PanicErrors)>>]_vars

\* C7: when a diagnostic pass panics for an opened or changed document, a single
\* synthetic diagnostic at line 1 is published for the document and the
\* document degrades to an empty AST and an empty table.
C7_DiagnosticPanicConverted ==
    [][\A w \in Workers :
          (/\ handler[w].pc = "pub_passes"
           /\ ~handler[w].timeout
           /\ SemanticPasses(docs[handler[w].doc], docs[handler[w].doc].SymbolTable).panic
           /\ handler'[w] # handler[w])
          => LET doc == docs'[handler[w].doc]
                 sent == published'[handler[w].uri]
             IN /\ sent # <<>>
                /\ Len(sent[1]) = 1
                /\ sent[1][1].Line = ToUint32(0)
                /\ IsNil(doc.AST)
                /\ doc.SymbolTable = <<NewSymbolTable>>]_vars

\* C8: after Clear() a Lookup of any name returns none without faulting, and a
\* further Clear() leaves the table as it is.
C8_ClearedTableIsInert ==
    sym.phase = "cleared"
    => /\ \A name \in SymNames : ~LookupPanics(sym.st) /\ Lookup(sym.st, name) = <<>>
       /\ Clear(sym.st) = sym.st

\* the table of the document stored under a URI (<<>> when there is none)
StoredTable(store, objects, uri) ==
    IF store[uri] = 0 THEN <<>> ELSE objects[store[uri]].SymbolTable

\* C9: a table that stops being the table of a stored document (its document is
\* changed, closed or replaced under the same URI) has had Clear() called on it:
\* a step that takes a table out of the store either is that Clear() or finds
\* the table already cleared.
C9_ClearedBeforeDropped ==
    [][\A uri \in URIs :
          LET old == StoredTable(documents, docs, uri)
              new == StoredTable(documents', docs', uri)
          IN (old # <<>> /\ new # old)
             => (IsCleared(old[1]) \/ new = <<Clear(old[1])>>)]_vars

\* the scopes at or below scope s of a table
RECURSIVE IsBelow(_, _, _)
IsBelow(st, s, top) ==
    IF s = top THEN TRUE
    ELSE IF s = 0 THEN FALSE
    ELSE IsBelow(st, st.scopes[s].Parent, top)

\* C10: BuildSymbolTable terminates on every AST within the guards, and a Lookup
\* of each declared name from the scope it is declared in, or from a scope
\* nested below it, returns a symbol with that name.
C10_DeclarationsFound ==
    /\ sym.phase # "build_panic"
    /\ sym.phase = "built"
       => \A d \in SymCases[sym.case].decls :
             /\ d.scope \in 1..Len(sym.st.scopes)
             /\ \A s \in 1..Len(sym.st.scopes) :
                   IsBelow(sym.st, s, d.scope)
                   => LET hit == ScopeLookup(sym.st, s, d.name)
                      IN hit # <<>> /\ hit[1].Name = d.name

\* C11: when the walk meets a node deeper than the depth bound or with more
\* children than the fan-out bound, the build still ends without a fault, every
\* declaration outside the skipped subtree is registered in its scope, and the
\* names declared only inside the skipped subtree are registered nowhere.
C11_GuardSkipsOnlySubtree ==
    (sym.phase # "none" /\ SymCases[sym.case].skipped # {})
    => /\ sym.phase # "build_panic"
       /\ sym.phase \in {"built", "walked"}
          => /\ \A d \in SymCases[sym.case].decls :
                   /\ d.scope \in 1..Len(sym.st.scopes)
                   /\ d.name \in DOMAIN sym.st.scopes[d.scope].Symbols
             /\ \A name \in SymCases[sym.case].skipped :
                   \A s \in 1..Len(sym.st.scopes) :
                      name \notin DOMAIN sym.st.scopes[s].Symbols
             /\ sym.st.CurrentScope = sym.st.GlobalScope

\* a walk that met a guard has ended, with declarations on both sides of it
C11_Witness ==
    /\ sym.phase \in {"built", "walked"}
    /\ SymCases[sym.case].skipped # {}
    /\ SymCases[sym.case].decls # {}

\* the number of diagnostics of a code on a (1-based) line of the document
CountDiags(out, code, line) ==
    Cardinality({i \in 1..Len(out) : out[i].Code = code /\ out[i].Line = ToUint32(line - 1)})

\* pass has run on a document of a kind
Ran(pass, kind) ==
    /\ diag.phase \in {"checked", "pass_panic"}
    /\ diag.pass = pass
    /\ DiagCases[diag.case].kind = kind

\* C12: no diagnostic pass iterates the children of a node with more children
\* than the fan-out bound: nothing is reported on the lines below such a node.
C12_PassesTruncate ==
    \A pass \in {"const", "return", "enum", "undefined"} :
       Ran(pass, "wide")
       => /\ diag.phase = "checked"
          /\ \A line \in DiagCases[diag.case].beyond :
                \A i \in 1..Len(diag.out) : diag.out[i].Line # ToUint32(line - 1)

\* C13: an assignment to the name of a constant declared earlier, in the
\* constant's scope or in a nested scope, gets exactly one 'const-reassignment'
\* diagnostic on the assignment's line.
C13_ConstReassignment ==
    Ran("const", "const")
    => /\ diag.phase = "checked"
       /\ \A line \in DiagCases[diag.case].reassigned :
             CountDiags(diag.out, "const-reassignment", line) = 1

\* C14: a variable or constant declaration of a name that a constant on an
\* earlier line bound gets exactly one diagnostic of its code on its line, in
\* whatever scope, and the first declaration of the constant gets none.
C14_ConstCollision ==
    Ran("const", "const")
    => /\ diag.phase = "checked"
       /\ \A c \in DiagCases[diag.case].collided :
             CountDiags(diag.out, c.code, c.line) = 1
       /\ \A line \in DiagCases[diag.case].first :
             /\ CountDiags(diag.out, "variable-const-collision", line) = 0
             /\ CountDiags(diag.out, "const-redeclaration", line) = 0

\* the return statements of a function that the claim has flagged for a mismatch
Mismatched(c) ==
    {r \in c.returns : /\ r.value
                       /\ r.type # <<>>
                       /\ r.type[1] \notin c.type.alts
                       /\ S_generic \notin c.type.alts}

\* C15: in a function whose declared return type is neither empty, 'infer' nor
\* 'void', a return statement gets exactly one 'return-type-mismatch'
\* diagnostic, naming the declared and the returned type, when it returns a
\* value of a known type that is not among the comma-separated alternatives
\* and no alternative is 'generic'; every other return statement gets none.
C15_ReturnTypeMismatch ==
    (Ran("return", "return") /\ DiagCases[diag.case].type.plain)
    => LET c == DiagCases[diag.case] IN
       /\ diag.phase = "checked"
       /\ \A r \in c.returns :
             CountDiags(diag.out, "return-type-mismatch", r.line)
                = IF r \in Mismatched(c) THEN 1 ELSE 0
       /\ \A i \in 1..Len(diag.out) :
             diag.out[i].Code = "return-type-mismatch"
             => \E r \in Mismatched(c) :
                   /\ diag.out[i].Line = ToUint32(r.line - 1)
                   /\ diag.out[i].Message.name = c.type.text
                   /\ diag.out[i].Message.other = r.type[1]

\* a function declared int that returns a string literal has its one diagnostic
C15_Witness ==
    /\ Ran("return", "return")
    /\ DiagCases[diag.case].type.text = S_int
    /\ Ret(2, TRUE, <<S_string>>) \in DiagCases[diag.case].returns
    /\ CountDiags(diag.out, "return-type-mismatch", 2) = 1

\* C16: a function with a declared non-void, non-inferred return type and no
\* return statement in its body gets exactly one 'missing-return' diagnostic on
\* its line; a function with a return statement gets none; in a function
\* declared void each return statement with a value gets one
\* 'void-return-violation' diagnostic.
C16_MissingAndVoidReturns ==
    Ran("return", "return")
    => LET c == DiagCases[diag.case] IN
       /\ diag.phase = "checked"
       /\ (c.type.plain /\ c.returns = {}) => CountDiags(diag.out, "missing-return", 1) = 1
       /\ c.returns # {} => \A i \in 1..Len(diag.out) : diag.out[i].Code # "missing-return"
       /\ c.type.text = S_void
          => \A r \in c.returns :
                r.value => CountDiags(diag.out, "void-return-violation", r.line) = 1

\* a function declared with a type and without a return statement has its diagnostic
C16_Witness ==
    /\ Ran("return", "return")
    /\ DiagCases[diag.case].type.plain
    /\ DiagCases[diag.case].returns = {}
    /\ CountDiags(diag.out, "missing-return", 1) = 1

\* C17: for each enum the 'enum-duplicate-member' diagnostics are one on the
\* line of each second or later occurrence of a member name within that enum,
\* so their number is the sum over its member names of the occurrences minus
\* one; a name that occurs once in each of two enums is not flagged.
C17_EnumDuplicates ==
    Ran("enum", "enum")
    => LET enums == DiagCases[diag.case].enums
           MemberLines(k) == {10 * k + i : i \in 1..Len(enums[k])}
           Names(k) == {enums[k][i] : i \in 1..Len(enums[k])}
           Reported(k) == {i \in 1..Len(diag.out) :
                             /\ diag.out[i].Code = "enum-duplicate-member"
                             /\ \E line \in MemberLines(k) : diag.out[i].Line = ToUint32(line - 1)}
       IN /\ diag.phase = "checked"
          /\ \A i \in 1..Len(diag.out) : \E k \in 1..Len(enums) : i \in Reported(k)
          /\ \A k \in 1..Len(enums) :
                /\ Cardinality(Reported(k)) = Len(enums[k]) - Cardinality(Names(k))
                /\ \A i \in 1..Len(enums[k]) :
                      CountDiags(diag.out, "enum-duplicate-member", 10 * k + i)
                         = IF \E j \in 1..(i - 1) : enums[k][j] = enums[k][i] THEN 1 ELSE 0

\* two enums that share a member name and repeat members of their own
C17_Witness ==
    /\ Ran("enum", "enum")
    /\ Len(DiagCases[diag.case].enums) = 2
    /\ Len(diag.out) = 2

\* C18: a call gets an 'undefined-function' diagnostic if and only if its name
\* is not a built-in and the document declares no function of that name,
\* whatever else the document declares.
C18_UndefinedFunction ==
    Ran("undefined", "call")
    => LET c == DiagCases[diag.case] IN
       /\ diag.phase = "checked"
       /\ CountDiags(diag.out, "undefined-function", 9)
             = IF ~isBuiltinFunction(c.name) /\ c.name \notin c.funcs THEN 1 ELSE 0

\* the function names the pass knows: the built-ins and the functions of the
\* global scope
KnownFunctions == {builtinFunctions[i] : i \in 1..Len(builtinFunctions)} \cup GlobalFunctions(diag.st)

\* C19: an 'undefined-function' message suggests X only when X is a known
\* function name, no known name is nearer to the called name, and the
\* distance is at most 3 for a called name of up to 10 characters and at most
\* a third of its length, rounded down, for a longer one.
C19_SuggestionWithinThreshold ==
    Ran("undefined", "call")
    => \A i \in 1..Len(diag.out) :
          (diag.out[i].Code = "undefined-function" /\ diag.out[i].Message.hint # <<>>)
          => LET name == diag.out[i].Message.name
                 X == diag.out[i].Message.hint[1]
                 threshold == IF Len(name) <= 10 THEN 3 ELSE Len(name) \div 3
             IN /\ X \in KnownFunctions
                /\ levenshteinDistance(name, X) <= threshold
                /\ \A other \in KnownFunctions :
                      levenshteinDistance(name, X) <= levenshteinDistance(name, other)

\* a called name of more than 10 characters got a suggestion more than 3 edits away
C19_Witness ==
    /\ Ran("undefined", "call")
    /\ \E i \in 1..Len(diag.out) :
          /\ diag.out[i].Message.hint # <<>>
          /\ Len(diag.out[i].Message.name) > 10
          /\ levenshteinDistance(diag.out[i].Message.name, diag.out[i].Message.hint[1]) > 3

\* C20: levenshteinDistance is symmetric, and it is 0 exactly for equal strings.
C20_LevenshteinSymmetricZero ==
    diag.phase = "measured"
    => /\ diag.fwd = diag.back
       /\ diag.fwd = 0 <=> diag.a = diag.b

\* two different strings of different lengths have been measured
C20_Witness ==
    /\ diag.phase = "measured"
    /\ Len(diag.a) > Len(diag.b)
    /\ Len(diag.b) > 0
    /\ diag.fwd > Len(diag.a) - Len(diag.b)

\* decimal numerals, written out
Decimal(n) ==
    << <<"0">>, <<"1">>, <<"2">>, <<"3">>, <<"4">>, <<"5">>, <<"6">>, <<"7">>, <<"8">>, <<"9">>,
       <<"1", "0">>, <<"1", "1">>, <<"1", "2">> >>[n + 1]

\* the texts that state an expected count min..max and an actual count argc
CountTexts(min, max, argc) ==
    LET expected ==
            IF min = max
            THEN {<<"e", "x", "p", "e", "c", "t", "e", "d", " ">> \o Decimal(min) \o <<" ", "a", "r", "g", "u", "m", "e", "n", "t", "s">>}
                 \cup (IF min = 1 THEN {<<"e", "x", "p", "e", "c", "t", "e", "d", " ", "1", " ", "a", "r", "g", "u", "m", "e", "n", "t">>} ELSE {})
                 \cup (IF min = 0 THEN {<<"e", "x", "p", "e", "c", "t", "e", "d", " ", "n", "o", " ", "a", "r", "g", "u", "m", "e", "n", "t", "s">>} ELSE {})
            ELSE {<<"e", "x", "p", "e", "c", "t", "e", "d", " ">> \o Decimal(min) \o <<"-">> \o Decimal(max)
                     \o <<" ", "a", "r", "g", "u", "m", "e", "n", "t", "s">>}
        got == {<<",", " ", "g", "o", "t", " ">> \o Decimal(argc)}
               \cup (IF argc = 0 THEN {<<",", " ", "g", "o", "t", " ", "n", "o", "n", "e">>} ELSE {})
    IN {e \o g : e \in expected, g \in got}

\* C21: a call of a function declared in the document gets an
\* 'argument-count-mismatch' diagnostic if and only if it has fewer arguments
\* than the function has parameters without a default value, or more than it
\* has parameters; the message states the expected count, exactly when the
\* two bounds are equal and as the range min-max otherwise, and the actual count.
C21_ArgumentCount ==
    Ran("args", "args")
    => LET c == DiagCases[diag.case] IN
       /\ diag.phase = "checked"
       /\ Len(diag.out) = IF c.argc < c.min \/ c.argc > c.max THEN 1 ELSE 0
       /\ \A i \in 1..Len(diag.out) :
             /\ diag.out[i].Code = "argument-count-mismatch"
             /\ diag.out[i].Line = ToUint32(9 - 1)
             /\ diag.out[i].Message \in CountTexts(c.min, c.max, c.argc)

\* a call with too few arguments for a function with a parameter that has a default
C21_Witness ==
    /\ Ran("args", "args")
    /\ DiagCases[diag.case].min < DiagCases[diag.case].max
    /\ DiagCases[diag.case].argc < DiagCases[diag.case].min
    /\ Len(diag.out) = 1

\* C22: a variable or constant declaration with a type annotation and an
\* initializer gets one 'type-mismatch' diagnostic if and only if the type of
\* the initializer is known, differs from the annotation, and the annotation
\* is not 'generic'.
C22_TypeMismatch ==
    Ran("type", "type")
    => LET c == DiagCases[diag.case] IN
       /\ diag.phase = "checked"
       /\ c.declKind \in {"VARIABLE_DECLARATION", "CONSTANT_DECLARATION"}
          => CountDiags(diag.out, "type-mismatch", 1)
                = IF c.type # <<>> /\ c.type[1] # c.annotation /\ c.annotation # S_generic
                  THEN 1 ELSE 0

\* C23: a variable declared without annotation whose initializer calls a
\* function has that function's declared return type as its symbol type,
\* whether the function is declared before or after the variable.
C23_CallReturnType ==
    (sym.phase = "built" /\ sym.case > Len(PlainCases) + Len(GuardCases))
    => LET hit == ScopeLookup(sym.st, sym.st.GlobalScope, <<"x">>)
       IN hit # <<>> /\ hit[1].Type = SymCases[sym.case].returns

\* the items of a method list whose label starts with a prefix
Methods(type, prefix) ==
    LET labels == CASE type = S_string -> stringMethods
                    [] type = S_array -> arrayMethods
                    [] type = S_dict -> dictMethods
        kept == SelectSeq(labels, LAMBDA label : HasPrefix(label, prefix))
    IN [i \in 1..Len(kept) |-> [Label |-> kept[i], Kind |-> "Method"]]

\* C24: completion right after 'name.' and a typed prefix, name being a
\* declared variable of type string, array or dict, returns exactly the entries
\* of that type's method list whose label starts with the prefix, and no
\* keyword, operator or symbol.
C24_MethodCompletion ==
    (req.phase = "completed" /\ CompCases[req.case].recv # <<>>)
    => /\ ~req.panic
       /\ req.items = Methods(CompCases[req.case].recv[1], CompCases[req.case].prefix)

\* C25: when a dot stands before the prefix at the cursor and what stands
\* before the dot cannot be resolved, or is a constant, completion returns an
\* empty list.
C25_UnresolvedDotIsEmpty ==
    (req.phase = "completed" /\ CompCases[req.case].dot /\ ~CompCases[req.case].resolvable)
    => ~req.panic /\ req.items = <<>>

\* C26: a code-action request is always answered: the reply carries no error,
\* it is the empty list when the deadline elapsed first, the goroutine
\* panicked or the parameters could not be decoded, and it is sent although
\* the goroutine may never finish.
C26_CodeActionAnswered ==
    /\ [](req.phase = "replied"
          => /\ req.reply # <<>>
             /\ req.reply[1].error = ""
             /\ req.reply[1].how \in {"timeout", "error"} => req.reply[1].items = <<>>
             /\ (req.handleErr /\ req.reply[1].how # "timeout") => req.reply[1].how = "error")
    /\ (req.phase = "start") ~> (req.phase = "replied")

\* the reply was sent at the deadline while the goroutine had not finished
C26_Witness ==
    /\ req.phase = "replied"
    /\ req.reply[1].how = "timeout"
    /\ req.worker = "generate"

\* the lines of the request's diagnostics that the actions of a reply refer to
FixedLines(actions) ==
    {actions[i].Diagnostics[1].Line :
        i \in {j \in 1..Len(actions) : actions[j].Kind = "quickfix"}}

\* C27: at most 5 of the request's diagnostics are turned into quick fixes,
\* the reply holds at most 15 actions, and a cursor line longer than 5000
\* bytes yields no refactor action.
C27_CodeActionCaps ==
    (req.phase = "replied" /\ req.reply[1].how = "done")
    => LET actions == req.reply[1].items IN
       /\ Cardinality(FixedLines(actions)) <= 5
       /\ Len(actions) <= 15
       /\ (req.line < Len(ActionLines) /\ ByteLen(ActionLines[req.line + 1]) > 5000)
          => \A i \in 1..Len(actions) : actions[i].Kind # "refactor"

\* seven diagnostics with a fix each, on a line of 5001 bytes with a refactoring
C27_Witness ==
    /\ req.phase = "replied"
    /\ req.reply[1].how = "done"
    /\ Cardinality(FixedLines(req.reply[1].items)) = 5
    /\ Len(DiagSeqs[req.diags]) = 7
    /\ req.line = 2

\* the unsigned 32-bit value of a small natural number
Small(n) == [hi |-> 0, lo |-> n]

\* C28: every 0-based line sent to the client that is derived from a 1-based
\* line equals max(line - 1, 0), and the column converted from a parse error's
\* column equals max(column - 1, 0): no such value wraps around.
C28_LinesClamped ==
    req.phase \in {"parse_error", "node", "definition", "outline"}
    => /\ req.outLine = Small(IF req.line - 1 > 0 THEN req.line - 1 ELSE 0)
       /\ req.phase = "parse_error"
          => req.outCharacter = Small(IF req.column - 1 > 0 THEN req.column - 1 ELSE 0)

\* a didOpen or didChange request that carries more than 5,000,000 bytes and
\* is about to be handled
Oversized(h) ==
    /\ h.pc = "start"
    /\ h.method \in {"didOpen", "didChange"}
    /\ h.changes > 0
    /\ Len(h.text.chars) + h.text.pad > 5000000

\* C29: the handling of an oversized didOpen or didChange ends in one step
\* that changes neither the store nor any Document; the didOpen is answered
\* with an error.
C29_OversizedRejected ==
    [][\A w \in Workers :
          (Oversized(handler[w]) /\ handler'[w] # handler[w])
          => /\ handler'[w].pc = "idle"
             /\ documents' = documents
             /\ docs' = docs
             /\ handler[w].method = "didOpen" => reply'[w].kind = "error"]_vars

\* an oversized didOpen has been answered with its error, and an oversized
\* didChange is at hand for a stored document
C29_Witness ==
    \E w, v \in Workers :
       /\ reply[w].method = "didOpen" /\ reply[w].error = "file too large"
       /\ Oversized(handler[v]) /\ handler[v].method = "didChange"
       /\ documents[handler[v].uri] # 0

handleHover(doc, line, character) ==
    IF doc = <<>> \/ doc[1].SymbolTable = <<>> THEN <<>>
    ELSE IF ByteLen(doc[1].Content) > MaxHoverSize THEN <<>>
    ELSE IF line < 0 \/ character < 0 THEN <<>>
    ELSE LET word == getWordAtPosition(doc[1].Lines, line, character)
         IN IF word = <<>> THEN <<>>
            ELSE LET symbol == Lookup(doc[1].SymbolTable[1], word)
                 IN IF symbol = <<>> THEN getKeywordHover(word)
                    ELSE SymbolHover(symbol[1])

MaxHoverLine == 3
MaxHoverChar == 11

\* the declarations of the hovered documents: the variable x, the variable is
\* (named like a keyword), and the function f with its parameter n and its
\* local variable t
HoverAst ==
    Program(<<VarDecl(<<"x">>, 1),
              VarDecl(<<"i", "s">>, 2),
              Node("FUNCTION", <<"f">>, S_int, 3,
                   <<Block(<<Ident(<<"n">>, 3), Ident(S_int, 3)>>),
                     Block(<<VarDecl(<<"t">>, 4)>>)>>)>>)

\* the hovered documents, by kind: their text and, for each word of the text,
\* the line it stands on, the columns from..to-1 it covers, and the word
\* (<<"?">> stands for a run of padding)
HoverWord3(line, from, to, word) == [line |-> line, from |-> from, to |-> to, word |-> word]

HoverKinds == <<"plain", "longline", "large", "closed">>

HoverContent(kind) ==
    CASE kind = "plain" ->
             Text(<<"x", " ", "d", "o", " ", "f", " ", "t", " ", "n", "\n",
                    "i", "s", " ", "z", "\n">>, 0)
      [] kind = "longline" -> Text(<<"x", " ">>, MaxLineLen - 1)
      [] kind = "large" -> Text(<<"x", "\n">>, MaxHoverSize)
      [] OTHER -> EmptyText

HoverWords(kind) ==
    CASE kind = "plain" ->
             {HoverWord3(0, 0, 1, <<"x">>), HoverWord3(0, 2, 4, <<"d", "o">>),
              HoverWord3(0, 5, 6, <<"f">>), HoverWord3(0, 7, 8, <<"t">>),
              HoverWord3(0, 9, 10, <<"n">>), HoverWord3(1, 0, 2, <<"i", "s">>),
              HoverWord3(1, 3, 4, <<"z">>)}
      [] kind = "longline" ->
             {HoverWord3(0, 0, 1, <<"x">>), HoverWord3(0, 2, MaxLineLen + 1, <<"?">>)}
      [] kind = "large" ->
             {HoverWord3(0, 0, 1, <<"x">>), HoverWord3(1, 0, MaxHoverSize, <<"?">>)}
      [] OTHER -> {}

\* the Document the store holds for the kind, as handleDidOpen leaves it
HoverDoc(kind) ==
    IF kind = "closed" THEN <<>>
    ELSE <<[Content |-> HoverContent(kind), Lines |-> Split(HoverContent(kind)),
            AST |-> HoverAst, SymbolTable |-> <<BuildSymbolTable(HoverAst).st>>]>>

NewHover(kind, line, character) ==
    [phase |-> "new", kind |-> kind, line |-> line, character |-> character, result |-> <<>>]

InitHover ==
    /\ \E k \in 1..Len(HoverKinds), line \in 0..MaxHoverLine, character \in 0..MaxHoverChar :
          req = NewHover(HoverKinds[k], line, character)
    /\ sym = NoSym
    /\ diag = NoDiag
    /\ documents = [u \in URIs |-> 0]
    /\ docs = <<>>
    /\ published = [u \in URIs |-> <<>>]
    /\ mu = FALSE
    /\ handler = [w \in Workers |-> Idle]
    /\ tasks = <<>>
    /\ reply = [w \in Workers |-> NoReply]
    /\ nreq = 0
    /\ ntimeout = 0

Hover ==
    /\ req.phase = "new"
    /\ req' = [req EXCEPT !.phase = "hovered",
                          !.result = handleHover(HoverDoc(req.kind), req.line, req.character)]
    /\ UNCHANGED <<server, sym, diag>>

NextHover == Hover

SpecHover == InitHover /\ [][NextHover]_vars

\* the word whose characters include the one at the cursor
WordUnder(kind, line, character) ==
    LET at == {h \in HoverWords(kind) :
                  h.line = line /\ h.from <= character /\ character < h.to}
    IN IF at = {} THEN <<>> ELSE (CHOOSE h \in at : TRUE).word

\* the word at the cursor or ending just before it, on a character of the line
WordAt(kind, line, character) ==
    LET at == {h \in HoverWords(kind) :
                  h.line = line /\ h.from <= character /\ character <= h.to}
        lines == Split(HoverContent(kind))
    IN IF at = {} \/ line >= Len(lines) \/ character >= ByteLen(lines[line + 1])
       THEN <<>> ELSE (CHOOSE h \in at : TRUE).word

\* the symbols a Lookup from the global scope finds in the hovered documents
HoverSymbols ==
    [name \in {<<"x">>, <<"i", "s">>, <<"f">>} |->
        CASE name = <<"x">> -> Symbol(<<"x">>, "Variable", S_int, 1)
          [] name = <<"i", "s">> -> Symbol(<<"i", "s">>, "Variable", S_int, 2)
          [] OTHER -> Symbol(<<"f">>, "Function", S_int, 3)]

\* the reply for a word: the symbol's text, else the keyword's, else nothing
HoverFor(word) ==
    IF word \in DOMAIN HoverSymbols
    THEN <<[kind |-> "symbol", symbol |-> HoverSymbols[word],
            line |-> ToUint32(HoverSymbols[word].Line - 1), character |-> ToUint32(0),
            endCharacter |-> ToUint32(Len(word))]>>
    ELSE IF word \in Keywords THEN <<[kind |-> "keyword", word |-> word]>>
    ELSE <<>>

\* C31 as stated: the reply is the text of the symbol, else of the keyword,
\* named by the word under the cursor, and empty otherwise; a symbol named
\* like a keyword wins.
C31_HoverReply ==
    req.phase = "hovered" => req.result = HoverFor(WordUnder(req.kind, req.line, req.character))

\* C31 amended: in a document of at most 1,000,000 bytes, on a line of at most
\* 10,000 bytes, the reply is the text of the symbol, else of the keyword,
\* named by the word at the cursor or ending just before it; it is empty
\* otherwise, and for larger documents and longer lines.
C31_HoverReplyWithinLimits ==
    req.phase = "hovered" =>
        LET content == HoverContent(req.kind)
            lines == Split(content)
            within == /\ ByteLen(content) <= MaxHoverSize
                      /\ req.line < Len(lines)
                      /\ ByteLen(lines[req.line + 1]) <= MaxLineLen
        IN req.result = IF within THEN HoverFor(WordAt(req.kind, req.line, req.character))
                        ELSE <<>>

\* the cursor is on the variable named like a keyword and its symbol's text
\* has been returned
C31_Witness ==
    /\ req.phase = "hovered" /\ req.kind = "plain"
    /\ WordUnder(req.kind, req.line, req.character) = <<"i", "s">>
    /\ req.result # <<>> /\ req.result[1].kind = "symbol"

\* C32: hovering over the name of the parameter n of f returns the hover text
\* of the symbol n, of kind Parameter with its declared type, as hovering over
\* the variable x and the function f returns theirs.
C32_ParameterHover ==
    (/\ req.phase = "hovered" /\ req.kind = "plain"
     /\ WordUnder(req.kind, req.line, req.character) \in {<<"n">>, <<"x">>, <<"f">>})
    => /\ req.result # <<>>
       /\ req.result[1].kind = "symbol"
       /\ req.result[1].symbol.Name = WordUnder(req.kind, req.line, req.character)
       /\ req.result[1].symbol.Name = <<"n">>
             => /\ req.result[1].symbol.Kind = "Parameter"
                /\ req.result[1].symbol.Type = S_int

(***************************************************************************)
(* The outline of documents at rest.                                       *)
(***************************************************************************)
MaxOutlineVars == 16     \* the small documents declare 0..MaxOutlineVars variables
OutlineSpan == 4         \* the large ones reach this far beyond the collection limit
OutlineBlock == 32       \* declarations per block of a document

\* the i-th variable of a document
VarName(i) == <<"v">> \o intToString(i)

\* the block of the variables from..to
VarBlock(from, to) == Block([i \in 1..((to - from) + 1) |-> VarDecl(VarName((from + i) - 1), 10 + from + i)])

\* a document declaring the constant k, the enum e with the value v, the
\* struct p with the field x, the function f with the parameter n and the
\* local variable t, and count further variables in blocks
OutlineAst(count) ==
    LET blocks == (count + OutlineBlock - 1) \div OutlineBlock IN
    Program(<<Node("CONSTANT_DECLARATION", <<"k">>, <<>>, 1, <<Number(1)>>),
              Node("ENUM_DECLARATION", <<"e">>, <<>>, 2, <<Ident(<<"v">>, 2)>>),
              Node("STRUCT_DECLARATION", <<"p">>, <<>>, 3, <<Ident(<<"x">>, 3), Ident(S_int, 3)>>),
              Node("FUNCTION", <<"f">>, S_int, 4,
                   <<Block(<<Ident(<<"n">>, 4), Ident(S_int, 4)>>),
                     Block(<<VarDecl(<<"t">>, 5)>>)>>)>>
            \o [b \in 1..blocks |->
                   VarBlock(((b - 1) * OutlineBlock) + 1,
                            IF b * OutlineBlock < count THEN b * OutlineBlock ELSE count)])

\* the symbols the table of the document holds: 6 + count in the global scope
\* and 2 in the scope of f
OutlineSymbols(count) == 8 + count

\* the numbers of variables of the documents
OutlineVars ==
    (0..MaxOutlineVars)
       \cup (((MaxCollected - 8) - 1)..((MaxCollected - 8) + OutlineSpan))

ReverseSeq(seq) == [i \in 1..Len(seq) |-> seq[(Len(seq) + 1) - i]]

\* orders in which the ranges over the symbol maps of the two scopes can run
OutlineOrders(count) ==
    LET declared == <<<<"k">>, <<"e">>, <<"v">>, <<"p">>, <<"x">>, <<"f">>>>
        variables == [i \in 1..count |-> VarName(i)]
        global == {declared \o variables, variables \o declared,
                   ReverseSeq(declared \o variables)}
        inner == {<< <<"n">>, <<"t">> >>, << <<"t">>, <<"n">> >>}
    IN {<<g, i>> : g \in global, i \in inner}

\* order[s] lists each name of the scope s once
IsRangeOrder(st, order) ==
    /\ DOMAIN order = DOMAIN st.scopes
    /\ \A s \in DOMAIN order :
          /\ Len(order[s]) = Cardinality(DOMAIN st.scopes[s].Symbols)
          /\ {order[s][i] : i \in 1..Len(order[s])} = DOMAIN st.scopes[s].Symbols

OutlineDoc(count) ==
    <<[AST |-> OutlineAst(count), SymbolTable |-> <<BuildSymbolTable(OutlineAst(count)).st>>]>>

NewOutline(count) == [phase |-> "new", count |-> count, result |-> <<>>]

InitOutline ==
    /\ \E count \in OutlineVars : req = NewOutline(count)
    /\ sym = NoSym
    /\ diag = NoDiag
    /\ documents = [u \in URIs |-> 0]
    /\ docs = <<>>
    /\ published = [u \in URIs |-> <<>>]
    /\ mu = FALSE
    /\ handler = [w \in Workers |-> Idle]
    /\ tasks = <<>>
    /\ reply = [w \in Workers |-> NoReply]
    /\ nreq = 0
    /\ ntimeout = 0

\* a documentSymbol request for the document
Outline ==
    /\ req.phase = "new"
    /\ \E order \in OutlineOrders(req.count) :
          /\ IsRangeOrder(OutlineDoc(req.count)[1].SymbolTable[1], order)
          /\ req' = [req EXCEPT !.phase = "outlined",
                                !.result = handleDocumentSymbol(OutlineDoc(req.count), order)]
    /\ UNCHANGED <<server, sym, diag>>

\* a documentSymbol request for a URI the store has no document for
OutlineClosed ==
    /\ req.phase = "new"
    /\ req' = [req EXCEPT !.phase = "closed",
                          !.result = handleDocumentSymbol(<<>>, <<>>)]
    /\ UNCHANGED <<server, sym, diag>>

NextOutline == Outline \/ OutlineClosed

SpecOutline == InitOutline /\ [][NextOutline]_vars

\* the name and kind of the entries the outline of the document is to have
OutlineEntries(count) ==
    {[Name |-> <<"k">>, Kind |-> "Constant"], [Name |-> <<"e">>, Kind |-> "Enum"],
     [Name |-> <<"p">>, Kind |-> "Struct"], [Name |-> <<"f">>, Kind |-> "Function"],
     [Name |-> <<"t">>, Kind |-> "Variable"]}
       \cup {[Name |-> VarName(i), Kind |-> "Variable"] : i \in 1..count}

\* the name and kind of the entries of a reply
ListedEntries(list) == {[Name |-> list[i].Name, Kind |-> list[i].Kind] : i \in 1..Len(list)}

RECURSIVE NearestDecl(_, _, _)
NearestDecl(c, s, name) ==
    IF Decl(name, s) \in c.decls THEN <<s>>
    ELSE IF c.parents[s] = 0 THEN <<>>
    ELSE NearestDecl(c, c.parents[s], name)

\* C34: a Lookup started from a scope returns the declaration of the name in
\* the nearest enclosing scope that has one (an inner declaration shadows an
\* outer one), and nil when only scopes that do not enclose the starting scope
\* declare it (a function body, an if, while or for block seen from outside).
C34_LexicalLookup ==
    (/\ sym.phase = "built" /\ sym.scope # 0
     /\ "parents" \in DOMAIN SymCases[sym.case])
    => LET c == SymCases[sym.case]
           nearest == NearestDecl(c, sym.scope, sym.name)
       IN IF nearest = <<>> THEN sym.found = <<>>
          ELSE /\ sym.found # <<>>
               /\ sym.found[1].Name = sym.name
               /\ sym.found[1].Line = c.lines[Decl(sym.name, nearest[1])]

\* x, declared in the global scope too, has been looked up from the if block
\* that declares it again, and the inner declaration has been returned
C34_Witness ==
    /\ sym.phase = "built" /\ "parents" \in DOMAIN SymCases[sym.case]
    /\ sym.scope = 3 /\ sym.name = <<"x">>
    /\ sym.found # <<>> /\ sym.found[1].Line = 4

\* the diagnostics publishDiagnostics computes from a Document as it stands
DiagnosticsOf(doc) ==
    (IF IsNil(doc.AST) \/ doc.SymbolTable = <<>> THEN <<>>
     ELSE SemanticPasses(doc, doc.SymbolTable).diags)
       \o ParseErrorDiagnostics(doc.Errors)

\* C35: when every notification received has been handled, the diagnostics
\* last published for a URI are those of the document the store holds for it,
\* and the empty list when it holds none.
C35_LastPublishedIsFinal ==
    (\A w \in Workers : handler[w].pc = "idle")
    => \A u \in URIs :
          published[u] # <<>>
          => published[u][1] = IF documents[u] = 0 THEN <<>>
                               ELSE DiagnosticsOf(docs[documents[u]])

\* C36: every request that Handle has dispatched gets its reply: as long as a
\* handler has not replied, it can take a step itself, or it waits for a parse
\* task that can take one, or for the store lock that a running handler holds
\* and will release.
C36_EveryRequestAnswered ==
    \A w \in Workers :
       handler[w].pc # "idle"
       => \/ ENABLED HandlerStep(w)
          \/ \E t \in 1..Len(tasks) : ENABLED TaskStep(t)
          \/ \E v \in Workers : v # w /\ handler[v].pc \in LockedPcs

\* how often the scope s is listed among the children of the scope p
TimesListed(st, p, s) ==
    Cardinality({i \in 1..Len(st.scopes[p].Children) : st.scopes[p].Children[i] = s})

\* C37: when BuildSymbolTable (or the walk of a subtree on a new table) has
\* returned, also after a guard of the walk was met, the scope cursor is back
\* on the Global Scope, the Global Scope has no parent, and every other scope
\* is listed once among the children of its parent and nowhere else.
C37_ScopesBalanced ==
    sym.phase \in {"built", "walked"}
    => LET st == sym.st IN
       /\ st.CurrentScope # 0
       /\ st.CurrentScope = st.GlobalScope
       /\ st.scopes[st.GlobalScope].Parent = 0
       /\ \A s \in 1..Len(st.scopes) :
             s # st.GlobalScope
             => /\ st.scopes[s].Parent \in 1..Len(st.scopes)
                /\ \A p \in 1..Len(st.scopes) :
                      TimesListed(st, p, s) = IF p = st.scopes[s].Parent THEN 1 ELSE 0

\* a build that met the fan-out guard inside a function has returned
C37_Witness ==
    /\ sym.phase = "built"
    /\ SymCases[sym.case].skipped # {}
    /\ Len(sym.st.scopes) >= 2

\* C38: a didChange for a URI the store has no document for is answered with
\* the error "document not found"; the step creates no Document, publishes
\* nothing, leaves the store lock free and changes no stored Document.
C38_ChangeOfUnknown ==
    [][\A w \in Workers :
          (/\ handler[w].pc = "start" /\ handler[w].method = "didChange"
           /\ documents[handler[w].uri] = 0
           /\ handler'[w] # handler[w])
          => /\ handler'[w].pc = "idle"
             /\ reply'[w].kind = "error"
             /\ reply'[w].error = "document not found"
             /\ documents' = documents
             /\ docs' = docs
             /\ published' = published
             /\ mu' = FALSE]_vars

\* a didChange for a closed URI has been answered while another document is
\* stored
C38_Witness ==
    \E w \in Workers, u \in URIs :
       /\ reply[w].method = "didChange" /\ reply[w].error = "document not found"
       /\ documents[reply[w].uri] = 0
       /\ documents[u] # 0

====
